---- MODULE Spec2Model ----
(***************************************************************************)
(* Model of the BC3 (FIEBDC-3) parser of bc3_reader/parser.py:             *)
(* BC3Parser._parse_content with its record decoders, and                  *)
(* BC3Parser.get_partidas_con_detalles.                                    *)
(*                                                                         *)
(* A Python str is modelled as a sequence of one-character strings, so     *)
(* that strip, split, replace, isdigit, int(), float() and the number      *)
(* formatting are computed character by character as the code does.        *)
(* A float is modelled as an exact decimal (sign, mantissa, number of      *)
(* decimals); the inputs are chosen so that every product has at most two  *)
(* decimals, where the float result formatted with .2f is the exact one.   *)
(***************************************************************************)
EXTENDS Integers, Sequences, FiniteSets, TLC

VARIABLES contenido, pc, registros_raw, i, presupuesto, resultados, iter_orden,
          otra, numero_s, numero_ret

vars == <<contenido, pc, registros_raw, i, presupuesto, resultados, iter_orden,
          otra, numero_s, numero_ret>>

(***************************************************************************)
(* Bounds of the model.                                                    *)
(***************************************************************************)
\* Largest number of records in a generated input text.
MaxRecords == 3
\* Number of calls of get_partidas_con_detalles on the parsed Budget.
MaxLlamadas == 2
\* Largest length of a generated argument of _parse_numero.
MaxNumLen == 3

(***************************************************************************)
(* Characters and str methods.                                             *)
(***************************************************************************)
\* The end-of-file character "\x1a" (ASCII 26), one character.
EOFChar == "<1A>"

\* Characters removed by str.strip() that occur in the modelled inputs.
Whitespace == {" ", "\n", "\r", "\t"}

Digits == {"0", "1", "2", "3", "4", "5", "6", "7", "8", "9"}

\* int(c) of one decimal digit.
DigitVal(c) ==
  CASE c = "0" -> 0 [] c = "1" -> 1 [] c = "2" -> 2 [] c = "3" -> 3
    [] c = "4" -> 4 [] c = "5" -> 5 [] c = "6" -> 6 [] c = "7" -> 7
    [] c = "8" -> 8 [] c = "9" -> 9

\* str(d) of one digit value 0..9.
DigitChar(d) == <<"0", "1", "2", "3", "4", "5", "6", "7", "8", "9">>[d + 1]

\* ord(c) for the characters that occur in sort-key components.
CodePoint(c) ==
  CASE c = " " -> 32 [] c = "#" -> 35 [] c = "," -> 44 [] c = "-" -> 45
    [] c = "." -> 46
    [] c \in Digits -> 48 + DigitVal(c)
    [] c = "A" -> 65 [] c = "X" -> 88 [] c = "Y" -> 89 [] c = "Z" -> 90
    [] c = "\\" -> 92
    [] c = "a" -> 97 [] c = "b" -> 98 [] c = "c" -> 99 [] c = "d" -> 100
    [] c = "m" -> 109 [] c = "r" -> 114 [] c = "u" -> 117 [] c = "x" -> 120
    [] OTHER -> 200

\* str.upper() of one character (the letters that occur as record tags).
UpperChar(c) ==
  CASE c = "v" -> "V" [] c = "k" -> "K" [] c = "c" -> "C" [] c = "d" -> "D"
    [] c = "y" -> "Y" [] c = "m" -> "M" [] c = "t" -> "T" [] c = "r" -> "R"
    [] c = "q" -> "Q" [] c = "f" -> "F" [] c = "g" -> "G" [] c = "l" -> "L"
    [] c = "o" -> "O" [] c = "x" -> "X" [] c = "z" -> "Z" [] c = "a" -> "A"
    [] c = "b" -> "B" [] c = "u" -> "U"
    [] OTHER -> c

Upper(s) == [k \in 1..Len(s) |-> UpperChar(s[k])]

RECURSIVE LStrip(_)
LStrip(s) ==
  IF s # <<>> /\ Head(s) \in Whitespace THEN LStrip(Tail(s)) ELSE s

RECURSIVE RStrip(_)
RStrip(s) ==
  IF s # <<>> /\ s[Len(s)] \in Whitespace
  THEN RStrip(SubSeq(s, 1, Len(s) - 1)) ELSE s

\* str.strip()
Strip(s) == RStrip(LStrip(s))

\* The positions of character c in s, ascending.
Positions(s, c) ==
  SelectSeq([k \in 1..Len(s) |-> k], LAMBDA k : s[k] = c)

\* s.split(c) for a one-character separator: always at least one part.
Split(s, c) ==
  LET seps == Positions(s, c)
  IN  [j \in 1..(Len(seps) + 1) |->
         SubSeq(s, (IF j = 1 THEN 0 ELSE seps[j - 1]) + 1,
                   (IF j > Len(seps) THEN Len(s) + 1 ELSE seps[j]) - 1)]

\* sep.join(parts)
RECURSIVE Join(_, _)
Join(parts, sep) ==
  IF parts = <<>> THEN <<>>
  ELSE IF Len(parts) = 1 THEN parts[1]
  ELSE parts[1] \o sep \o Join(Tail(parts), sep)

\* s.replace(c, t) for two characters c and t.
ReplaceChar(s, c, t) == [k \in 1..Len(s) |-> IF s[k] = c THEN t ELSE s[k]]

\* s.replace(c, "") for a character c.
RemoveChar(s, c) == SelectSeq(s, LAMBDA x : x # c)

\* s.replace("\r\n", "\n"): every "\r" that a "\n" follows is dropped.
ReplaceCRLF(s) ==
  LET keep == SelectSeq([k \in 1..Len(s) |-> k],
                        LAMBDA k : ~(s[k] = "\r" /\ k < Len(s)
                                     /\ s[k + 1] = "\n"))
  IN  [j \in 1..Len(keep) |-> s[keep[j]]]

\* s.replace("##", ""): non-overlapping occurrences, left to right.
RECURSIVE ReplaceHashHash(_)
ReplaceHashHash(s) ==
  IF s = <<>> THEN <<>>
  ELSE IF Len(s) >= 2 /\ s[1] = "#" /\ s[2] = "#"
       THEN ReplaceHashHash(SubSeq(s, 3, Len(s)))
  ELSE <<Head(s)>> \o ReplaceHashHash(Tail(s))

\* The elements of a sequence that satisfy a test, in order.
RECURSIVE SelectNonEmpty(_)
SelectNonEmpty(parts) ==
  IF parts = <<>> THEN <<>>
  ELSE (IF parts[1] # <<>> THEN <<parts[1]>> ELSE <<>>)
       \o SelectNonEmpty(Tail(parts))

\* lst[a:] of a Python list (0-based a).
SliceFrom(lst, a) == SubSeq(lst, a + 1, Len(lst))

\* A Python dict: a function; d[k] = v is Put, the empty dict is <<>>.
EmptyDict == <<>>
Put(d, k, v) == [x \in (DOMAIN d) \cup {k} |-> IF x = k THEN v ELSE d[x]]

(***************************************************************************)
(* Sub-field helpers.                                                      *)
(***************************************************************************)
\* _primer_subcampo
_primer_subcampo(valor) ==
  IF Strip(valor) = <<>> THEN <<>>
  ELSE Strip(Split(Strip(valor), "\\")[1])

\* _todos_subcampos
_todos_subcampos(valor) ==
  IF Strip(valor) = <<>> THEN <<>>
  ELSE LET partes == Split(Strip(valor), "\\")
       IN  SelectNonEmpty([k \in 1..Len(partes) |-> Strip(partes[k])])

\* BC3Parser._split_campos
_split_campos(registro) ==
  LET campos == Split(registro, "|")
  IN  [k \in 1..Len(campos) |-> Strip(campos[k])]

\* _limpiar_codigo taking the "#" markers out of the code.
_limpiar_codigo_sin_marcas(codigo) == RemoveChar(Strip(codigo), "#")

\* BC3Parser._limpiar_codigo
_limpiar_codigo(codigo) == IF codigo # <<>> THEN Strip(codigo) ELSE <<>>

(***************************************************************************)
(* Numbers: Optional[float] as an exact decimal.                           *)
(* [ok |-> FALSE, ...] is None; otherwise the value is                     *)
(* (-1)^neg * m / 10^d, kept normalised (no trailing zero decimals) so     *)
(* that equal floats are equal records.                                    *)
(***************************************************************************)
NoValue == [ok |-> FALSE, neg |-> FALSE, m |-> 0, d |-> 0]

RECURSIVE Pow10(_)
Pow10(n) == IF n = 0 THEN 1 ELSE 10 * Pow10(n - 1)

RECURSIVE Normalise(_, _, _)
Normalise(neg, m, d) ==
  IF d > 0 /\ m % 10 = 0 THEN Normalise(neg, m \div 10, d - 1)
  ELSE [ok |-> TRUE, neg |-> neg, m |-> m, d |-> d]

\* The float 1.0 of the comparisons "!= 1.0".
One == Normalise(FALSE, 1, 0)

\* int(s) of a string of decimal digits ("" counts as 0 for a missing part).
RECURSIVE ToInt(_)
ToInt(s) ==
  IF s = <<>> THEN 0
  ELSE 10 * ToInt(SubSeq(s, 1, Len(s) - 1)) + DigitVal(s[Len(s)])

\* str.isdigit() on the modelled (ASCII) characters.
IsDigit(s) == s # <<>> /\ \A k \in 1..Len(s) : s[k] \in Digits

\* str(n) of a natural number.
RECURSIVE NatStr(_)
NatStr(n) ==
  IF n < 10 THEN <<DigitChar(n)>>
  ELSE NatStr(n \div 10) \o <<DigitChar(n % 10)>>

\* float(s) for the texts the modelled characters can form: optional sign,
\* digits with at most one point and at least one digit.  Exponents,
\* underscores, "inf" and "nan" need characters the inputs do not contain.
PyFloat(s) ==
  LET u      == Strip(s)
      signed == u # <<>> /\ u[1] \in {"+", "-"}
      body   == IF signed THEN Tail(u) ELSE u
      parts  == Split(body, ".")
      ent    == parts[1]
      frac   == IF Len(parts) = 2 THEN parts[2] ELSE <<>>
      valid  == /\ Len(parts) <= 2
                /\ \A k \in 1..Len(ent) : ent[k] \in Digits
                /\ \A k \in 1..Len(frac) : frac[k] \in Digits
                /\ Len(ent) + Len(frac) >= 1
  IN  IF valid
      THEN Normalise(signed /\ u[1] = "-", ToInt(ent \o frac), Len(frac))
      ELSE NoValue

\* _parse_numero giving 0.0 where the code gives None.
_parse_numero_cero(s) ==
  IF Strip(s) = <<>> THEN Normalise(FALSE, 0, 0)
  ELSE LET s1 == RemoveChar(Strip(s), " ")
           s2 == ReplaceChar(RemoveChar(s1, "."), ",", ".")
       IN  IF PyFloat(s2).ok THEN PyFloat(s2) ELSE Normalise(FALSE, 0, 0)

\* BC3Parser._parse_numero
_parse_numero(s) ==
  IF Strip(s) = <<>> THEN NoValue
  ELSE LET s1 == RemoveChar(Strip(s), " ")
           s2 == ReplaceChar(RemoveChar(s1, "."), ",", ".")
       IN  PyFloat(s2)

\* cant * precio
Times(a, b) == Normalise(a.neg # b.neg, a.m * b.m, a.d + b.d)

\* The digits of n with "," between groups of three (format spec ",").
RECURSIVE Grouped(_)
Grouped(n) ==
  IF n < 1000 THEN NatStr(n)
  ELSE LET r == n % 1000
       IN  Grouped(n \div 1000) \o <<",">>
           \o <<DigitChar(r \div 100), DigitChar((r \div 10) % 10),
                DigitChar(r % 10)>>

\* The value in hundredths, rounded half to even (exact for d <= 2).
Hundredths(x) ==
  IF x.d <= 2 THEN x.m * Pow10(2 - x.d)
  ELSE LET p == Pow10(x.d - 2)
           q == x.m \div p
           r == x.m % p
       IN  IF 2 * r > p \/ (2 * r = p /\ q % 2 = 1) THEN q + 1 ELSE q

\* f"{x:,.2f}"
FormatComma2f(x) ==
  LET h == Hundredths(x)
  IN  (IF x.neg THEN <<"-">> ELSE <<>>)
      \o Grouped(h \div 100) \o <<".">>
      \o <<DigitChar((h \div 10) % 10), DigitChar(h % 10)>>

\* f"{x:,.2f}".replace(",", "X").replace(".", ",").replace("X", ".")
FormatImporte(x) ==
  ReplaceChar(ReplaceChar(ReplaceChar(FormatComma2f(x), ",", "X"),
                          ".", ","),
              "X", ".")

\* str(n) of a float: shortest repr, always with a decimal part.
StrFloat(x) ==
  LET p    == Pow10(x.d)
      frac == NatStr(x.m % p)
      pad  == [k \in 1..(x.d - Len(frac)) |-> "0"]
  IN  (IF x.neg THEN <<"-">> ELSE <<>>)
      \o NatStr(x.m \div p) \o <<".">>
      \o (IF x.d = 0 THEN <<"0">> ELSE pad \o frac)

(***************************************************************************)
(* Record decoders.  Each takes the field list campos (campos[1] is the    *)
(* tag, Python index 0) and the Budget p, and gives the Budget after the   *)
(* record.                                                                 *)
(***************************************************************************)
VersionKeys ==
  <<"propiedad", "version_formato", "programa_emision", "cabecera",
    "charset", "comentario", "tipo_info", "num_certificacion",
    "fecha_certificacion", "url_base">>

Min(a, b) == IF a < b THEN a ELSE b

\* dict(zip(keys, vals))
DictZip(keys, vals) ==
  LET n == Min(Len(keys), Len(vals))
  IN  [k \in {keys[j] : j \in 1..n} |->
         vals[CHOOSE j \in 1..n : keys[j] = k]]

\* _parse_registro_v without the padding of missing trailing fields.
_parse_registro_v_sin_relleno(campos, p) ==
  [p EXCEPT !.version = DictZip(VersionKeys, SliceFrom(campos, 1))]

\* BC3Parser._parse_registro_v
_parse_registro_v(campos, p) ==
  LET vals == IF Len(campos) > 11 THEN SubSeq(campos, 2, 11)
              ELSE SliceFrom(campos, 1) \o [k \in 1..10 |-> <<>>]
  IN  [p EXCEPT !.version = DictZip(VersionKeys, vals)]

\* BC3Parser._parse_registro_k
_parse_registro_k(campos, p) ==
  IF Len(campos) > 1
  THEN [p EXCEPT !.coeficientes = Put(@, "raw", SliceFrom(campos, 1))]
  ELSE p

\* a or b  for two strings
StrOr(a, b) == IF a # <<>> THEN a ELSE b

\* _parse_registro_c merging with the entry already stored: an empty value
\* of the new record keeps the earlier one.
_parse_registro_c_mezcla(campos, p) ==
  IF Len(campos) < 4 THEN p
  ELSE
    LET codigo == _limpiar_codigo(StrOr(_primer_subcampo(campos[2]),
                                        Strip(campos[2])))
        nuevo == [j \in 1..5 |->
                    IF Len(campos) > j + 1
                    THEN StrOr(_primer_subcampo(campos[j + 2]),
                               Strip(campos[j + 2]))
                    ELSE <<>>]
        previo == IF codigo \in DOMAIN p.conceptos THEN p.conceptos[codigo]
                  ELSE [j \in 1..5 |-> <<>>]
    IN  IF codigo = <<>> THEN p
        ELSE [p EXCEPT !.conceptos =
                Put(@, codigo, [j \in 1..5 |-> StrOr(nuevo[j], previo[j])])]

\* BC3Parser._parse_registro_c
_parse_registro_c(campos, p) ==
  IF Len(campos) < 4 THEN p
  ELSE
    LET codigo_raw == campos[2]
        codigo == _limpiar_codigo(StrOr(_primer_subcampo(codigo_raw),
                                        Strip(codigo_raw)))
        unidad == IF Len(campos) > 2 THEN _primer_subcampo(campos[3]) ELSE <<>>
        resumen == IF Len(campos) > 3 THEN _primer_subcampo(campos[4]) ELSE <<>>
        precio_raw == IF Len(campos) > 4 THEN campos[5] ELSE <<>>
        precio == StrOr(_primer_subcampo(precio_raw), Strip(precio_raw))
        fecha_raw == IF Len(campos) > 5 THEN campos[6] ELSE <<>>
        fecha == StrOr(_primer_subcampo(fecha_raw), Strip(fecha_raw))
        tipo == IF Len(campos) > 6 THEN _primer_subcampo(campos[7]) ELSE <<>>
    IN  IF codigo = <<>> THEN p
        ELSE [p EXCEPT !.conceptos =
                Put(@, codigo, <<unidad, resumen, precio, fecha, tipo>>)]

\* The loop body of _parse_registro_d over campos[2:], appending to lineas.
RECURSIVE LineasD(_, _)
LineasD(resto, lineas) ==
  IF resto = <<>> THEN lineas
  ELSE
    LET sub == _todos_subcampos(Head(resto))
    IN  IF sub = <<>> THEN LineasD(Tail(resto), lineas)
        ELSE
          LET codigo_hijo == sub[1]
              factor == IF Len(sub) > 1 THEN sub[2] ELSE <<"1">>
              rendimiento == IF Len(sub) > 2 THEN sub[3] ELSE <<"1">>
              f_ok == factor # <<>> /\ _parse_numero(factor) # One
              r_ok == rendimiento # <<>> /\ _parse_numero(rendimiento) # One
              linea ==
                IF r_ok
                THEN codigo_hijo \o <<" ", "x", " ">> \o factor
                     \o <<" ", "(", "r", ":", " ">> \o rendimiento \o <<")">>
                ELSE IF f_ok
                THEN codigo_hijo \o <<" ", "x", " ">> \o factor
                ELSE codigo_hijo
          IN  LineasD(Tail(resto), Append(lineas, linea))

\* _parse_registro_d appending to the entry already stored, as Y does.
_parse_registro_d_anade(campos, p) ==
  IF Len(campos) < 3 THEN p
  ELSE
    LET codigo_padre == _limpiar_codigo(campos[2])
        lineas == IF codigo_padre \in DOMAIN p.descomposiciones
                  THEN p.descomposiciones[codigo_padre] ELSE <<>>
    IN  IF codigo_padre = <<>> THEN p
        ELSE [p EXCEPT !.descomposiciones =
                Put(@, codigo_padre, LineasD(SliceFrom(campos, 2), lineas))]

\* BC3Parser._parse_registro_d
_parse_registro_d(campos, p) ==
  IF Len(campos) < 3 THEN p
  ELSE
    LET codigo_padre == _limpiar_codigo(campos[2])
    IN  IF codigo_padre = <<>> THEN p
        ELSE [p EXCEPT !.descomposiciones =
                Put(@, codigo_padre, LineasD(SliceFrom(campos, 2), <<>>))]

\* The loop of _parse_registro_y comparing the factor and the yield with
\* the text "1" instead of the number 1.0.
RECURSIVE LineasY_textual(_, _)
LineasY_textual(resto, lineas) ==
  IF resto = <<>> THEN lineas
  ELSE
    LET sub == _todos_subcampos(Head(resto))
    IN  IF sub = <<>> THEN LineasY_textual(Tail(resto), lineas)
        ELSE
          LET codigo_hijo == sub[1]
              factor == IF Len(sub) > 1 THEN sub[2] ELSE <<"1">>
              rendimiento == IF Len(sub) > 2 THEN sub[3] ELSE <<"1">>
              f_ok == factor # <<"1">>
              r_ok == rendimiento # <<"1">>
              linea ==
                IF r_ok
                THEN codigo_hijo \o <<" ", "x", " ">> \o factor
                     \o <<" ", "(", "r", ":", " ">> \o rendimiento \o <<")">>
                ELSE IF f_ok
                THEN codigo_hijo \o <<" ", "x", " ">> \o factor
                ELSE codigo_hijo
          IN  LineasY_textual(Tail(resto), Append(lineas, linea))

\* The loop body of _parse_registro_y over campos[2:], appending to lineas.
RECURSIVE LineasY(_, _)
LineasY(resto, lineas) ==
  IF resto = <<>> THEN lineas
  ELSE
    LET sub == _todos_subcampos(Head(resto))
    IN  IF sub = <<>> THEN LineasY(Tail(resto), lineas)
        ELSE
          LET codigo_hijo == sub[1]
              factor == IF Len(sub) > 1 THEN sub[2] ELSE <<"1">>
              rendimiento == IF Len(sub) > 2 THEN sub[3] ELSE <<"1">>
              f_ok == factor # <<>> /\ _parse_numero(factor) # One
              r_ok == rendimiento # <<>> /\ _parse_numero(rendimiento) # One
              linea ==
                IF r_ok
                THEN codigo_hijo \o <<" ", "x", " ">> \o factor
                     \o <<" ", "(", "r", ":", " ">> \o rendimiento \o <<")">>
                ELSE IF f_ok
                THEN codigo_hijo \o <<" ", "x", " ">> \o factor
                ELSE codigo_hijo
          IN  LineasY(Tail(resto), Append(lineas, linea))

\* BC3Parser._parse_registro_y
_parse_registro_y(campos, p) ==
  IF Len(campos) < 3 THEN p
  ELSE
    LET codigo_padre == _limpiar_codigo(campos[2])
    IN  IF codigo_padre = <<>> THEN p
        ELSE
          LET lineas == IF codigo_padre \in DOMAIN p.descomposiciones
                        THEN p.descomposiciones[codigo_padre] ELSE <<>>
          IN  [p EXCEPT !.descomposiciones =
                 Put(@, codigo_padre, LineasY(SliceFrom(campos, 2), lineas))]

\* _parse_registro_m taking the entry of the code out of mediciones when
\* the field has no content (mediciones.pop(codigo, None)).
_parse_registro_m_borra(campos, p) ==
  IF Len(campos) < 3 THEN p
  ELSE
    LET codigo == _limpiar_codigo(campos[2])
        valor_raw == campos[3]
        sub == _todos_subcampos(valor_raw)
    IN  IF codigo = <<>> THEN p
        ELSE IF sub # <<>>
        THEN [p EXCEPT !.mediciones = Put(@, codigo, sub)]
        ELSE IF Strip(valor_raw) # <<>>
        THEN [p EXCEPT !.mediciones = Put(@, codigo, <<Strip(valor_raw)>>)]
        ELSE [p EXCEPT !.mediciones =
                [x \in (DOMAIN @) \ {codigo} |-> @[x]]]

\* _parse_registro_m storing nothing for a field with no content, so that
\* an earlier entry of the code stays.
_parse_registro_m_sin_vacia(campos, p) ==
  IF Len(campos) < 3 THEN p
  ELSE
    LET codigo == _limpiar_codigo(campos[2])
        valor_raw == campos[3]
        sub == _todos_subcampos(valor_raw)
    IN  IF codigo = <<>> THEN p
        ELSE IF sub # <<>>
        THEN [p EXCEPT !.mediciones = Put(@, codigo, sub)]
        ELSE IF Strip(valor_raw) # <<>>
        THEN [p EXCEPT !.mediciones = Put(@, codigo, <<Strip(valor_raw)>>)]
        ELSE p

\* _parse_registro_m accepting a record of 2 fields, with no measurement.
_parse_registro_m_min2(campos, p) ==
  IF Len(campos) < 2 THEN p
  ELSE
    LET codigo == _limpiar_codigo(campos[2])
        valor_raw == IF Len(campos) > 2 THEN campos[3] ELSE <<>>
        sub == _todos_subcampos(valor_raw)
    IN  IF codigo = <<>> THEN p
        ELSE IF sub # <<>>
        THEN [p EXCEPT !.mediciones = Put(@, codigo, sub)]
        ELSE [p EXCEPT !.mediciones =
                Put(@, codigo, IF Strip(valor_raw) # <<>>
                               THEN <<Strip(valor_raw)>> ELSE <<>>)]

\* BC3Parser._parse_registro_m
_parse_registro_m(campos, p) ==
  IF Len(campos) < 3 THEN p
  ELSE
    LET codigo == _limpiar_codigo(campos[2])
        valor_raw == campos[3]
        sub == _todos_subcampos(valor_raw)
    IN  IF codigo = <<>> THEN p
        ELSE IF sub # <<>>
        THEN [p EXCEPT !.mediciones = Put(@, codigo, sub)]
        ELSE [p EXCEPT !.mediciones =
                Put(@, codigo, IF Strip(valor_raw) # <<>>
                               THEN <<Strip(valor_raw)>> ELSE <<>>)]

\* _parse_registro_t storing the text only of a code that already has a
\* concept ("if codigo in presupuesto.conceptos").
_parse_registro_t_tras_c(campos, p) ==
  IF Len(campos) >= 3
  THEN LET codigo == _limpiar_codigo(campos[2])
       IN  IF codigo # <<>> /\ codigo \in DOMAIN p.conceptos
           THEN [p EXCEPT !.textos =
                   Put(@, codigo, IF campos[3] # <<>> THEN Strip(campos[3])
                                  ELSE <<>>)]
           ELSE p
  ELSE p

\* _parse_registro_t keeping the text a code already has
\* (textos.setdefault).
_parse_registro_t_primero(campos, p) ==
  IF Len(campos) >= 3
  THEN LET codigo == _limpiar_codigo(campos[2])
       IN  IF codigo # <<>> /\ codigo \notin DOMAIN p.textos
           THEN [p EXCEPT !.textos =
                   Put(@, codigo, IF campos[3] # <<>> THEN Strip(campos[3])
                                  ELSE <<>>)]
           ELSE p
  ELSE p

\* BC3Parser._parse_registro_t
_parse_registro_t(campos, p) ==
  IF Len(campos) >= 3
  THEN LET codigo == _limpiar_codigo(campos[2])
       IN  IF codigo # <<>>
           THEN [p EXCEPT !.textos =
                   Put(@, codigo, IF campos[3] # <<>> THEN Strip(campos[3])
                                  ELSE <<>>)]
           ELSE p
  ELSE p

\* BC3Parser._guardar_otro
_guardar_otro(tipo, campos, p) ==
  LET otros == IF tipo \notin DOMAIN p.otros_registros
               THEN Put(p.otros_registros, tipo, <<>>)
               ELSE p.otros_registros
  IN  [p EXCEPT !.otros_registros =
         Put(otros, tipo, Append(otros[tipo], SliceFrom(campos, 1)))]

\* PresupuestoBC3(): every mapping empty.
PresupuestoBC3 ==
  [version |-> EmptyDict, coeficientes |-> EmptyDict, conceptos |-> EmptyDict,
   descomposiciones |-> EmptyDict, mediciones |-> EmptyDict,
   textos |-> EmptyDict, metadata |-> EmptyDict,
   otros_registros |-> EmptyDict]

\* The Budget parse_from_bytes hands to _parse_content: a new PresupuestoBC3
\* with the two metadata entries.  The modelled texts are ASCII, which
\* _detect_encoding decodes as utf-8; no file name is given.
PresupuestoInicial ==
  [PresupuestoBC3 EXCEPT
     !.metadata = Put(Put(@, "encoding", <<"u", "t", "f", "-", "8">>),
                      "filepath",
                      <<"u", "p", "l", "o", "a", "d", ".", "b", "c", "3">>)]

(***************************************************************************)
(* Flattening: get_partidas_con_detalles.                                  *)
(***************************************************************************)
\* One component of a sort key: an int (esInt, n) or a str (s).
KeyInt(n) == [esInt |-> TRUE, n |-> n, s |-> <<>>]
KeyStr(s) == [esInt |-> FALSE, n |-> 0, s |-> s]

\* get_partidas_con_detalles.orden_codigo
orden_codigo(c) ==
  LET base == RemoveChar(ReplaceHashHash(c), "#")
      todas == Split(base, ".")
      partes == SubSeq(todas, 1, Min(8, Len(todas)))
  IN  [k \in 1..Len(partes) |->
         IF IsDigit(partes[k]) THEN KeyInt(ToInt(partes[k]))
         ELSE KeyStr(StrOr(partes[k], <<"0">>))]

\* s < t for two Python strings: by code point, a proper prefix first.
RECURSIVE StrLess(_, _)
StrLess(s, t) ==
  IF t = <<>> THEN FALSE
  ELSE IF s = <<>> THEN TRUE
  ELSE IF Head(s) # Head(t) THEN CodePoint(Head(s)) < CodePoint(Head(t))
  ELSE StrLess(Tail(s), Tail(t))

\* The positions at which two tuples differ (x == y is False for int vs str).
DiffPos(a, b) == {k \in 1..Min(Len(a), Len(b)) : a[k] # b[k]}

FirstDiff(a, b) == CHOOSE k \in DiffPos(a, b) : \A j \in DiffPos(a, b) : k <= j

\* a < b raises TypeError: the first differing components are int and str.
Incomparable(a, b) ==
  DiffPos(a, b) # {} /\ a[FirstDiff(a, b)].esInt # b[FirstDiff(a, b)].esInt

\* a < b for two key tuples that are comparable.
TupleLess(a, b) ==
  IF DiffPos(a, b) = {} THEN Len(a) < Len(b)
  ELSE LET k == FirstDiff(a, b)
       IN  IF a[k].esInt THEN a[k].n < b[k].n ELSE StrLess(a[k].s, b[k].s)

\* Insert x into the sorted list after every element that is not greater.
RECURSIVE InsertStable(_, _)
InsertStable(lst, x) ==
  IF lst = <<>> THEN <<x>>
  ELSE IF TupleLess(orden_codigo(x), orden_codigo(Head(lst)))
       THEN <<x>> \o lst
  ELSE <<Head(lst)>> \o InsertStable(Tail(lst), x)

\* sorted(seq, key=orden_codigo) when no comparison raises: the stable sort.
RECURSIVE SortedByKey(_)
SortedByKey(seq) ==
  IF seq = <<>> THEN <<>>
  ELSE InsertStable(SortedByKey(SubSeq(seq, 1, Len(seq) - 1)), seq[Len(seq)])

\* sorted(...) raises TypeError.  A comparison sort has to compare two
\* adjacent elements of its result directly or through elements between
\* them, so it meets an int/str comparison exactly when two keys of the
\* set are incomparable, whatever the order the set is iterated in.
SortRaises(codigos) ==
  \E a, b \in codigos : Incomparable(orden_codigo(a), orden_codigo(b))

\* The loop of _extraer_cantidad_medicion: str(n) if the element parses.
NumerosDe(med) ==
  [k \in 1..Len(med) |->
     IF _parse_numero(med[k]).ok THEN StrFloat(_parse_numero(med[k]))
     ELSE med[k]]

\* The product of the first k elements of an entry whose elements all
\* parse.
RECURSIVE ProductoDe(_, _)
ProductoDe(med, k) ==
  IF k = 1 THEN _parse_numero(med[1])
  ELSE Times(ProductoDe(med, k - 1), _parse_numero(med[k]))

\* _extraer_cantidad_medicion computing the product of the dimensions when
\* all of them are numbers ("o calcular" in the comment of the code).
_extraer_cantidad_medicion_producto(med) ==
  IF med = <<>> THEN <<>>
  ELSE IF Len(med) = 1 THEN med[1]
  ELSE IF \A k \in 1..Len(med) : _parse_numero(med[k]).ok
  THEN StrFloat(ProductoDe(med, Len(med)))
  ELSE Join(NumerosDe(med), <<" ", "x", " ">>)

\* _extraer_cantidad_medicion giving the first element of an entry with
\* several.
_extraer_cantidad_medicion_primero(med) ==
  IF med = <<>> THEN <<>> ELSE med[1]

\* BC3Parser._extraer_cantidad_medicion
_extraer_cantidad_medicion(med) ==
  IF med = <<>> THEN <<>>
  ELSE IF Len(med) = 1 THEN med[1]
  ELSE Join(NumerosDe(med), <<" ", "x", " ">>)

\* The importe with an absent quantity or price taken as zero.
Importe_cero(cantidad, precio_unitario) ==
  LET cant == _parse_numero(cantidad)
      precio == _parse_numero(precio_unitario)
      cero == Normalise(FALSE, 0, 0)
  IN  FormatImporte(Times(IF cant.ok THEN cant ELSE cero,
                          IF precio.ok THEN precio ELSE cero))

\* The importe of a line item (the try block of get_partidas_con_detalles).
Importe(cantidad, precio_unitario) ==
  LET cant == _parse_numero(cantidad)
      precio == _parse_numero(precio_unitario)
  IN  IF cant.ok /\ precio.ok THEN FormatImporte(Times(cant, precio))
      ELSE <<>>

\* The line item built for one code.
Partida(codigo, p) ==
  LET enC == codigo \in DOMAIN p.conceptos
      campos == IF enC THEN p.conceptos[codigo] ELSE <<>>
      unidad == IF enC /\ Len(campos) > 0 THEN campos[1] ELSE <<>>
      descripcion == IF enC /\ Len(campos) > 1 THEN campos[2] ELSE <<>>
      precio_unitario == IF enC /\ Len(campos) > 2 THEN campos[3] ELSE <<>>
      texto_largo == IF codigo \in DOMAIN p.textos THEN p.textos[codigo]
                     ELSE <<>>
      cantidad == IF codigo \in DOMAIN p.mediciones
                  THEN _extraer_cantidad_medicion(p.mediciones[codigo])
                  ELSE <<>>
      descomposicion == IF codigo \in DOMAIN p.descomposiciones
                        THEN Join(p.descomposiciones[codigo],
                                  <<" ", "|", " ">>)
                        ELSE <<>>
  IN  [codigo |-> codigo, descripcion |-> descripcion, unidad |-> unidad,
       cantidad |-> cantidad, precio_unitario |-> precio_unitario,
       importe |-> Importe(cantidad, precio_unitario),
       texto_largo |-> texto_largo, descomposicion |-> descomposicion]

\* The loop over codigos_ordenados, skipping codes already processed.
RECURSIVE PartidasDe(_, _, _)
PartidasDe(codigos_ordenados, codigos_procesados, p) ==
  IF codigos_ordenados = <<>> THEN <<>>
  ELSE LET codigo == Head(codigos_ordenados)
       IN  IF codigo \in codigos_procesados
           THEN PartidasDe(Tail(codigos_ordenados), codigos_procesados, p)
           ELSE <<Partida(codigo, p)>>
                \o PartidasDe(Tail(codigos_ordenados),
                              codigos_procesados \cup {codigo}, p)

\* The set of codes with the keys of descomposiciones added.
TodosCodigos_con_descomposiciones(p) ==
  (DOMAIN p.conceptos) \cup (DOMAIN p.mediciones)
  \cup (DOMAIN p.descomposiciones)

\* set(conceptos.keys()) | set(mediciones.keys())
TodosCodigos(p) == (DOMAIN p.conceptos) \cup (DOMAIN p.mediciones)

\* The orders in which a Python set with these elements can be iterated:
\* the order depends on the process's string hash seed.
IterOrders(S) ==
  {f \in [1..Cardinality(S) -> S] : \A x \in S : \E k \in DOMAIN f : f[k] = x}

\* Iteration orders that may change from one call to the next.
OrdenesDeIteracion_sin_fijar(S) == IterOrders(S)

\* The orders in which a call can iterate the set of codes: any order in
\* the first call of the process, the same order in every later call (the
\* hash seed and the way the set is built do not change between calls).
OrdenesDeIteracion(S) ==
  IF resultados = <<>> THEN IterOrders(S) ELSE {iter_orden}

\* The list get_partidas_con_detalles returns when the sort does not raise
\* and the set is iterated in the order given.
Partidas(orden, p) == PartidasDe(SortedByKey(orden), {}, p)

(***************************************************************************)
(* The pass of _parse_content, one record per step.                        *)
(***************************************************************************)
\* The split of the text without the cut at the end-of-file mark.
RegistrosRaw_sin_corte(texto) ==
  Split(ReplaceChar(ReplaceCRLF(texto), "\r", "\n"), "~")

\* The split of the text into raw records (parser.py lines 128-135).
RegistrosRaw(texto) ==
  LET c1 == ReplaceChar(ReplaceCRLF(texto), "\r", "\n")
      c2 == IF \E k \in 1..Len(c1) : c1[k] = EOFChar
            THEN Split(c1, EOFChar)[1] ELSE c1
  IN  Split(c2, "~")

\* The field list and the tag of the raw record at position k.
RegRaw(k) == Strip(registros_raw[k])
Campos(k) == _split_campos(RegRaw(k))
Tipo(k) == Upper(Strip(Campos(k)[1]))

TiposOtros == {<<"F">>, <<"G">>, <<"L">>, <<"O">>, <<"X">>, <<"Z">>}
TiposDecodificados ==
  {<<"V">>, <<"K">>, <<"C">>, <<"D">>, <<"Y">>, <<"M">>, <<"T">>}

\* A record is being processed: the loop has a non-empty record at i.
EnRegistro == pc = "bucle" /\ i <= Len(registros_raw) /\ RegRaw(i) # <<>>

\* The loop moves to the next raw record with the Budget given.
Avanza(p) ==
  /\ presupuesto' = p
  /\ i' = i + 1
  /\ UNCHANGED <<contenido, pc, registros_raw, resultados, iter_orden,
                 otra, numero_s, numero_ret>>

\* _parse_content up to the loop: line endings, end-of-file mark, split.
ParseContent ==
  /\ pc = "inicio"
  /\ registros_raw' = RegistrosRaw(contenido)
  /\ i' = 1
  /\ pc' = "bucle"
  /\ UNCHANGED <<contenido, presupuesto, resultados, iter_orden,
                 otra, numero_s, numero_ret>>

\* "if not reg_raw: continue"
RegistroVacio ==
  /\ pc = "bucle" /\ i <= Len(registros_raw) /\ RegRaw(i) = <<>>
  /\ Avanza(presupuesto)

RegistroV ==
  /\ EnRegistro /\ Tipo(i) = <<"V">>
  /\ Avanza(_parse_registro_v(Campos(i), presupuesto))

RegistroK ==
  /\ EnRegistro /\ Tipo(i) = <<"K">>
  /\ Avanza(_parse_registro_k(Campos(i), presupuesto))

RegistroC ==
  /\ EnRegistro /\ Tipo(i) = <<"C">>
  /\ Avanza(_parse_registro_c(Campos(i), presupuesto))

RegistroD ==
  /\ EnRegistro /\ Tipo(i) = <<"D">>
  /\ Avanza(_parse_registro_d(Campos(i), presupuesto))

RegistroY ==
  /\ EnRegistro /\ Tipo(i) = <<"Y">>
  /\ Avanza(_parse_registro_y(Campos(i), presupuesto))

RegistroM ==
  /\ EnRegistro /\ Tipo(i) = <<"M">>
  /\ Avanza(_parse_registro_m(Campos(i), presupuesto))

RegistroT ==
  /\ EnRegistro /\ Tipo(i) = <<"T">>
  /\ Avanza(_parse_registro_t(Campos(i), presupuesto))

\* The branches for R and for F, G, L, O, X, Z.
RegistroOtro ==
  /\ EnRegistro /\ (Tipo(i) = <<"R">> \/ Tipo(i) \in TiposOtros)
  /\ Avanza(_guardar_otro(Tipo(i), Campos(i), presupuesto))

\* No branch of the if/elif chain matches: the record has no effect.
RegistroSinRama ==
  /\ EnRegistro
  /\ Tipo(i) \notin TiposDecodificados \cup {<<"R">>} \cup TiposOtros
  /\ Avanza(presupuesto)

\* The loop is over: "return presupuesto".
FinParse ==
  /\ pc = "bucle" /\ i > Len(registros_raw)
  /\ pc' = "parsed"
  /\ UNCHANGED <<contenido, registros_raw, i, presupuesto, resultados,
                 iter_orden, otra, numero_s, numero_ret>>

\* get_partidas_con_detalles taking each measurement out of the Budget as
\* it reads it (mediciones.pop(codigo)).
GetPartidas_pop ==
  /\ pc = "parsed" /\ Len(resultados) < MaxLlamadas
  /\ \E orden \in OrdenesDeIteracion(TodosCodigos(presupuesto)) :
       IF SortRaises(TodosCodigos(presupuesto))
       THEN /\ pc' = "TypeError"
            /\ UNCHANGED <<resultados, iter_orden, presupuesto>>
       ELSE /\ resultados' = Append(resultados, Partidas(orden, presupuesto))
            /\ iter_orden' = orden
            /\ pc' = pc
            /\ presupuesto' = [presupuesto EXCEPT !.mediciones = EmptyDict]
  /\ UNCHANGED <<contenido, registros_raw, i, otra, numero_s, numero_ret>>

\* A call of get_partidas_con_detalles on the parsed Budget.  The set of
\* codes is iterated in an order fixed by the process's hash seed: the first
\* call may see any order, a later call in the same process sees the same.
\* The sort either raises TypeError, which ends the caller's try block, or
\* the list of line items is returned.
GetPartidas ==
  /\ pc = "parsed" /\ Len(resultados) < MaxLlamadas
  /\ \E orden \in OrdenesDeIteracion(TodosCodigos(presupuesto)) :
       IF SortRaises(TodosCodigos(presupuesto))
       THEN /\ pc' = "TypeError"
            /\ UNCHANGED <<resultados, iter_orden>>
       ELSE /\ resultados' = Append(resultados, Partidas(orden, presupuesto))
            /\ iter_orden' = orden
            /\ pc' = pc
  /\ UNCHANGED <<contenido, registros_raw, i, presupuesto,
                 otra, numero_s, numero_ret>>

Next ==
  \/ ParseContent
  \/ RegistroVacio
  \/ RegistroV
  \/ RegistroK
  \/ RegistroC
  \/ RegistroD
  \/ RegistroY
  \/ RegistroM
  \/ RegistroT
  \/ RegistroOtro
  \/ RegistroSinRama
  \/ FinParse
  \/ GetPartidas

(***************************************************************************)
(* A second parse, running at the same time as the first: its own call of  *)
(* parse_from_bytes, with its own text, loop position and Budget.          *)
(***************************************************************************)
\* The body of the loop of _parse_content for one raw record (lines
\* 138-165): the Budget after the record.
Despacho(reg, p) ==
  LET reg_raw == Strip(reg)
      campos == _split_campos(reg_raw)
      tipo == Upper(Strip(campos[1]))
  IN  IF reg_raw = <<>> THEN p
      ELSE CASE tipo = <<"V">> -> _parse_registro_v(campos, p)
             [] tipo = <<"K">> -> _parse_registro_k(campos, p)
             [] tipo = <<"C">> -> _parse_registro_c(campos, p)
             [] tipo = <<"D">> -> _parse_registro_d(campos, p)
             [] tipo = <<"Y">> -> _parse_registro_y(campos, p)
             [] tipo = <<"M">> -> _parse_registro_m(campos, p)
             [] tipo = <<"T">> -> _parse_registro_t(campos, p)
             [] tipo = <<"R">> \/ tipo \in TiposOtros
                  -> _guardar_otro(tipo, campos, p)
             [] OTHER -> p

\* No second parse is running.
OtraInactiva ==
  [contenido |-> <<>>, pc |-> "sin_uso", registros_raw |-> <<>>, i |-> 1,
   presupuesto |-> PresupuestoBC3]

\* The second parse before _parse_content runs on the text given.
OtraCon(texto) ==
  [contenido |-> texto, pc |-> "inicio", registros_raw |-> <<>>, i |-> 1,
   presupuesto |-> PresupuestoInicial]

\* The second parse reaches its loop.
OtraParseContent ==
  /\ otra.pc = "inicio"
  /\ otra' = [otra EXCEPT !.registros_raw = RegistrosRaw(otra.contenido),
                          !.i = 1, !.pc = "bucle"]
  /\ UNCHANGED <<contenido, pc, registros_raw, i, presupuesto, resultados,
                 iter_orden, numero_s, numero_ret>>

\* The second parse with one Budget kept in the parser object: its records
\* are decoded into the Budget of the first parse.
OtraRegistro_compartido ==
  /\ otra.pc = "bucle" /\ otra.i <= Len(otra.registros_raw)
  /\ presupuesto' = Despacho(otra.registros_raw[otra.i], presupuesto)
  /\ otra' = [otra EXCEPT !.presupuesto = presupuesto', !.i = @ + 1]
  /\ UNCHANGED <<contenido, pc, registros_raw, i, resultados,
                 iter_orden, numero_s, numero_ret>>

\* The second parse processes one raw record: the decoders are handed the
\* Budget created by this parse's own call of parse_from_bytes.
OtraRegistro ==
  /\ otra.pc = "bucle" /\ otra.i <= Len(otra.registros_raw)
  /\ otra' = [otra EXCEPT
                !.presupuesto = Despacho(otra.registros_raw[otra.i], @),
                !.i = @ + 1]
  /\ UNCHANGED <<contenido, pc, registros_raw, i, presupuesto, resultados,
                 iter_orden, numero_s, numero_ret>>

\* The loop of the second parse is over.
OtraFinParse ==
  /\ otra.pc = "bucle" /\ otra.i > Len(otra.registros_raw)
  /\ otra' = [otra EXCEPT !.pc = "parsed"]
  /\ UNCHANGED <<contenido, pc, registros_raw, i, presupuesto, resultados,
                 iter_orden, numero_s, numero_ret>>

\* Two parses, their steps interleaved in any order.
NextDos ==
  \/ Next
  \/ OtraParseContent
  \/ OtraRegistro
  \/ OtraFinParse

(***************************************************************************)
(* A call of _parse_numero on its own.                                     *)
(***************************************************************************)
\* _parse_numero has not been called.
NumeroSinLlamar == [llamada |-> FALSE, valor |-> NoValue]

\* _parse_numero(numero_s) returns.
ParseNumero ==
  /\ ~numero_ret.llamada
  /\ numero_ret' = [llamada |-> TRUE, valor |-> _parse_numero(numero_s)]
  /\ UNCHANGED <<contenido, pc, registros_raw, i, presupuesto, resultados,
                 iter_orden, otra, numero_s>>

\* The state before _parse_content runs on the text given.
InitCon(textos) ==
  /\ contenido \in textos
  /\ pc = "inicio"
  /\ registros_raw = <<>>
  /\ i = 1
  /\ presupuesto = PresupuestoInicial
  /\ resultados = <<>>
  /\ iter_orden = <<>>
  /\ otra = OtraInactiva
  /\ numero_s = <<>>
  /\ numero_ret = NumeroSinLlamar

(***************************************************************************)
(* Input texts.  A raw record is written as its characters; the comment    *)
(* before each shows it as text.                                           *)
(***************************************************************************)

\* Q|foo|bar
Reg_Q ==
  <<"Q", "|", "f", "o", "o", "|", "b", "a", "r">>

\* q|x
Reg_q ==
  <<"q", "|", "x">>

\* R|a|b
Reg_R ==
  <<"R", "|", "a", "|", "b">>

\* F|a
Reg_F ==
  <<"F", "|", "a">>

\* Z
Reg_Z ==
  <<"Z">>

\* C|X|u|r|1
Reg_CX ==
  <<"C", "|", "X", "|", "u", "|", "r", "|", "1">>

\* M|X|2
Reg_MX ==
  <<"M", "|", "X", "|", "2">>

\* D|X|a
Reg_DXa ==
  <<"D", "|", "X", "|", "a">>

\* C|##|u|r|1
Reg_C_raiz ==
  <<"C", "|", "#", "#", "|", "u", "|", "r", "|", "1">>

\* C|1.2|u|r|1
Reg_C_1_2 ==
  <<"C", "|", "1", ".", "2", "|", "u", "|", "r", "|", "1">>

\* C|1.10|u|r|1
Reg_C_1_10 ==
  <<"C", "|", "1", ".", "1", "0", "|", "u", "|", "r", "|", "1">>

\* C|02.1|u|r|1
Reg_C_02_1 ==
  <<"C", "|", "0", "2", ".", "1", "|", "u", "|", "r", "|", "1">>

\* M|1.a|3
Reg_M_1_a ==
  <<"M", "|", "1", ".", "a", "|", "3">>

\* C|01.01|u|r|1
Reg_C_01_01 ==
  <<"C", "|", "0", "1", ".", "0", "1", "|", "u", "|", "r", "|", "1">>

\* M|1.1|2
Reg_M_1_1 ==
  <<"M", "|", "1", ".", "1", "|", "2">>

\* C|01|u|r|2
Reg_C_01 ==
  <<"C", "|", "0", "1", "|", "u", "|", "r", "|", "2">>

\* M|01#|3
Reg_M_01h ==
  <<"M", "|", "0", "1", "#", "|", "3">>

\* C|2|u|r|1
Reg_C_2 ==
  <<"C", "|", "2", "|", "u", "|", "r", "|", "1">>

\* M|01|5
Reg_M_01 ==
  <<"M", "|", "0", "1", "|", "5">>

\* C|Y|u|r|3
Reg_CY ==
  <<"C", "|", "Y", "|", "u", "|", "r", "|", "3">>

\* M|Y|\2\3
Reg_MY_dim ==
  <<"M", "|", "Y", "|", "\\", "2", "\\", "3">>

\* D|Z|a
Reg_DZa ==
  <<"D", "|", "Z", "|", "a">>

\* T|Z|t
Reg_TZ ==
  <<"T", "|", "Z", "|", "t">>

\* T|Y|t
Reg_TY ==
  <<"T", "|", "Y", "|", "t">>

\* C|X|m2|d|2,50
Reg_C_2_50 ==
  <<"C", "|", "X", "|", "m", "2", "|", "d", "|", "2", ",", "5", "0">>

\* C|X|m2|d|15,00|01012024|
Reg_C_15_00 ==
  <<"C", "|", "X", "|", "m", "2", "|", "d", "|", "1", "5", ",", "0", "0",
    "|", "0", "1", "0", "1", "2", "0", "2", "4", "|">>

\* C|X|u|d|abc
Reg_C_abc ==
  <<"C", "|", "X", "|", "u", "|", "d", "|", "a", "b", "c">>

\* C|X|u|d
Reg_C_sin_precio ==
  <<"C", "|", "X", "|", "u", "|", "d">>

\* M|X|10
Reg_M_10 ==
  <<"M", "|", "X", "|", "1", "0">>

\* M|X|120
Reg_M_120 ==
  <<"M", "|", "X", "|", "1", "2", "0">>

\* M|X|\2\3\
Reg_M_dim ==
  <<"M", "|", "X", "|", "\\", "2", "\\", "3", "\\">>

\* M|X|
Reg_M_vacia ==
  <<"M", "|", "X", "|">>

\* M|X|1,5
Reg_M_1_5 ==
  <<"M", "|", "X", "|", "1", ",", "5">>

\* D|X|a\2|b
Reg_D_a2_b ==
  <<"D", "|", "X", "|", "a", "\\", "2", "|", "b">>

\* D|X|c
Reg_D_c ==
  <<"D", "|", "X", "|", "c">>

\* Y|X|d\1\3
Reg_Y_d13 ==
  <<"Y", "|", "X", "|", "d", "\\", "1", "\\", "3">>

\* Y|X|e
Reg_Y_e ==
  <<"Y", "|", "X", "|", "e">>

\* D|X
Reg_D_corto ==
  <<"D", "|", "X">>

\* Y|Z|a
Reg_Y_Z ==
  <<"Y", "|", "Z", "|", "a">>

\* D|X|
Reg_D_sin_hijos ==
  <<"D", "|", "X", "|">>

\* Y|X
Reg_Y_corto ==
  <<"Y", "|", "X">>

\* C|X|m2|d|10|f|t
Reg_C_7 ==
  <<"C", "|", "X", "|", "m", "2", "|", "d", "|", "1", "0", "|", "f", "|",
    "t">>

\* C|X|m3|e
Reg_C_4 ==
  <<"C", "|", "X", "|", "m", "3", "|", "e">>

\* C|X\Z|a|b|2
Reg_C_alias ==
  <<"C", "|", "X", "\\", "Z", "|", "a", "|", "b", "|", "2">>

\* C|X|u
Reg_C_corto ==
  <<"C", "|", "X", "|", "u">>

\* C||u|r|1
Reg_C_sin_codigo ==
  <<"C", "|", "|", "u", "|", "r", "|", "1">>

\* V
Reg_V_1 ==
  <<"V">>

\* V|ACME|F3
Reg_V_3 ==
  <<"V", "|", "A", "C", "M", "E", "|", "F", "3">>

\* V|a|b|c|d|e|f|g|h|i|j
Reg_V_11 ==
  <<"V", "|", "a", "|", "b", "|", "c", "|", "d", "|", "e", "|", "f", "|",
    "g", "|", "h", "|", "i", "|", "j">>

\* V|a|b|c|d|e|f|g|h|i|j|k
Reg_V_12 ==
  <<"V", "|", "a", "|", "b", "|", "c", "|", "d", "|", "e", "|", "f", "|",
    "g", "|", "h", "|", "i", "|", "j", "|", "k">>

\* V|z|y|c|d|e|f|g|h|i|j|k|l
Reg_V_13 ==
  <<"V", "|", "z", "|", "y", "|", "c", "|", "d", "|", "e", "|", "f", "|",
    "g", "|", "h", "|", "i", "|", "j", "|", "k", "|", "l">>

\* v|m
Reg_v_2 ==
  <<"v", "|", "m">>

\* K
Reg_K_corto ==
  <<"K">>

\* M|X
Reg_M_corto ==
  <<"M", "|", "X">>

\* T|X
Reg_T_corto ==
  <<"T", "|", "X">>

\* T|X|t
Reg_TX ==
  <<"T", "|", "X", "|", "t">>

\* K|1
Reg_K ==
  <<"K", "|", "1">>

\* C|A#|u|r|1
Reg_C_Ah ==
  <<"C", "|", "A", "#", "|", "u", "|", "r", "|", "1">>

\* M|A#|2
Reg_M_Ah ==
  <<"M", "|", "A", "#", "|", "2">>

\* T| A# |t
Reg_T_Ah ==
  <<"T", "|", " ", "A", "#", " ", "|", "t">>

\* D|A#|b
Reg_D_Ah ==
  <<"D", "|", "A", "#", "|", "b">>

\* M|X\Z|3
Reg_M_alias ==
  <<"M", "|", "X", "\\", "Z", "|", "3">>

\* <1A>
Reg_EOF ==
  <<EOFChar>>

\* T|X|t<1A>D|X|c
Reg_T_EOF_D ==
  <<"T", "|", "X", "|", "t", EOFChar, "D", "|", "X", "|", "c">>

\* (an empty chunk)
Reg_vacio ==
  <<>>

\* a blank and <LF>
Reg_blanco ==
  <<" ", "\n">>

\* C|X|m2\a| d \e|15,00\16|f\g|t\w
Reg_C_sub ==
  <<"C", "|", "X", "|", "m", "2", "\\", "a", "|", " ", "d", " ", "\\", "e",
    "|", "1", "5", ",", "0", "0", "\\", "1", "6", "|", "f", "\\", "g", "|",
    "t", "\\", "w">>

\* C|X|u|r|\15,00
Reg_C_precio_vacio ==
  <<"C", "|", "X", "|", "u", "|", "r", "|", "\\", "1", "5", ",", "0", "0">>

\* C|X|u|r|1|\f
Reg_C_fecha_vacia ==
  <<"C", "|", "X", "|", "u", "|", "r", "|", "1", "|", "\\", "f">>

\* C|X| \a|r|1
Reg_C_unidad_vacia ==
  <<"C", "|", "X", "|", " ", "\\", "a", "|", "r", "|", "1">>

\* D|X|a\1,0\1|b\2\1,0|c\1\3
Reg_D_unos ==
  <<"D", "|", "X", "|", "a", "\\", "1", ",", "0", "\\", "1", "|", "b",
    "\\", "2", "\\", "1", ",", "0", "|", "c", "\\", "1", "\\", "3">>

\* Y|X|a\1,0\1|b\2\1,0|c\1\3
Reg_Y_unos ==
  <<"Y", "|", "X", "|", "a", "\\", "1", ",", "0", "\\", "1", "|", "b",
    "\\", "2", "\\", "1", ",", "0", "|", "c", "\\", "1", "\\", "3">>

\* D|X|d\1.0|e\x|g\1\1\9
Reg_D_raros ==
  <<"D", "|", "X", "|", "d", "\\", "1", ".", "0", "|", "e", "\\", "x", "|",
    "g", "\\", "1", "\\", "1", "\\", "9">>

\* Y|X|d\1.0|e\x|g\1\1\9
Reg_Y_raros ==
  <<"Y", "|", "X", "|", "d", "\\", "1", ".", "0", "|", "e", "\\", "x", "|",
    "g", "\\", "1", "\\", "1", "\\", "9">>

\* D|X|\\|f\\2|h
Reg_D_huecos ==
  <<"D", "|", "X", "|", "\\", "\\", "|", "f", "\\", "\\", "2", "|", "h">>

\* Y|X|\\|f\\2|h
Reg_Y_huecos ==
  <<"Y", "|", "X", "|", "\\", "\\", "|", "f", "\\", "\\", "2", "|", "h">>

\* M|X| \ 
Reg_M_barra ==
  <<"M", "|", "X", "|", " ", "\\", " ">>

\* M|Y| 5 |9
Reg_M_Y5 ==
  <<"M", "|", "Y", "|", " ", "5", " ", "|", "9">>

\* M|X|2,5\a\3
Reg_M_mixta ==
  <<"M", "|", "X", "|", "2", ",", "5", "\\", "a", "\\", "3">>

\* M|X|1.000\ 2
Reg_M_miles ==
  <<"M", "|", "X", "|", "1", ".", "0", "0", "0", "\\", " ", "2">>

\* T|X|a
Reg_T_a ==
  <<"T", "|", "X", "|", "a">>

\* T|X| b c 
Reg_T_bc ==
  <<"T", "|", "X", "|", " ", "b", " ", "c", " ">>

\* T|X|
Reg_T_vacio ==
  <<"T", "|", "X", "|">>

\* T|Y|d|z
Reg_T_Yd ==
  <<"T", "|", "Y", "|", "d", "|", "z">>

\* Records of passthrough and unknown tags, with decoded ones.
RegsOtros ==
  {Reg_Q, Reg_q, Reg_R, Reg_F, Reg_Z, Reg_CX, Reg_MX, Reg_DXa}

\* Records whose codes have numeric, textual and marker-only keys.
RegsOrden ==
  {Reg_C_raiz, Reg_C_1_2, Reg_C_1_10, Reg_C_02_1, Reg_M_1_a}

\* Records whose codes share a sort key.
RegsEmpates ==
  {Reg_C_01_01, Reg_M_1_1, Reg_C_01, Reg_M_01h, Reg_C_2, Reg_M_01}

\* Records of every kind that names a code, on codes X, Y, Z.
RegsPartidas ==
  {Reg_CX, Reg_MX, Reg_CY, Reg_MY_dim, Reg_DZa, Reg_TZ, Reg_DXa, Reg_TY}

\* Prices and quantities that parse, are blank or do not parse.
RegsImporte ==
  {Reg_C_2_50, Reg_C_15_00, Reg_C_abc, Reg_C_sin_precio, Reg_M_10,
   Reg_M_120, Reg_M_dim, Reg_M_vacia, Reg_M_1_5}

\* D and Y records for parents X and Z, some under-length.
RegsDY ==
  {Reg_D_a2_b, Reg_D_c, Reg_Y_d13, Reg_Y_e, Reg_D_corto, Reg_Y_Z,
   Reg_D_sin_hijos, Reg_Y_corto}

\* C records for codes X and Y with different field counts.
RegsC ==
  {Reg_C_7, Reg_C_4, Reg_C_alias, Reg_C_corto, Reg_CY, Reg_C_sin_codigo}

\* V records with 1 to 13 fields.
RegsV ==
  {Reg_V_1, Reg_V_3, Reg_V_11, Reg_V_12, Reg_V_13, Reg_v_2, Reg_CX}

\* Under-length records of each kind, with valid ones.
RegsCortos ==
  {Reg_K_corto, Reg_C_corto, Reg_D_corto, Reg_Y_corto, Reg_M_corto,
   Reg_T_corto, Reg_CX, Reg_DXa, Reg_TX, Reg_K}

\* Records whose code field has markers, surrounding blanks or sub-fields.
RegsCodigos ==
  {Reg_C_Ah, Reg_M_Ah, Reg_T_Ah, Reg_D_Ah, Reg_C_raiz, Reg_C_alias,
   Reg_M_alias}

\* Chunks with an end-of-file mark, empty and blank chunks, and records.
RegsEOF ==
  {Reg_CX, Reg_MX, Reg_DXa, Reg_EOF, Reg_T_EOF_D, Reg_vacio, Reg_blanco}

\* C records whose fields 2 to 6 have sub-fields, some with an empty first
\* one.
RegsConcepto ==
  {Reg_C_sub, Reg_C_precio_vacio, Reg_C_fecha_vacia, Reg_C_unidad_vacia,
   Reg_C_4, Reg_C_7, Reg_C_corto, Reg_CY}

\* D and Y records with the same child fields: factors and yields that are
\* 1, not 1, unparseable or missing.
RegsRender ==
  {Reg_D_unos, Reg_Y_unos, Reg_D_raros, Reg_Y_raros, Reg_D_huecos,
   Reg_Y_huecos, Reg_D_sin_hijos, Reg_CX}

\* M records with one, several and no sub-fields, for codes X and Y.
RegsMedicion ==
  {Reg_M_dim, Reg_M_10, Reg_M_vacia, Reg_M_barra, Reg_M_Y5, Reg_M_mixta,
   Reg_M_miles, Reg_CX}

\* T records for codes X and Y, some with an empty text.
RegsTextos ==
  {Reg_T_a, Reg_T_bc, Reg_T_vacio, Reg_T_Yd, Reg_T_corto, Reg_TX, Reg_CX}

\* Records of the first of two parses.
RegsDosA ==
  {Reg_CX, Reg_MX}

\* Records of the second of two parses.
RegsDosB ==
  {Reg_CY, Reg_M_10}

\* Records of every kind for one code, with values that replace, empty and
\* extend earlier ones.
RegsPasada ==
  {Reg_CX, Reg_MX, Reg_M_vacia, Reg_TX, Reg_DXa, Reg_Y_e, Reg_R, Reg_F}

\* Records of different kinds for one code: a C, an M, a T, a D and a Y
\* record, and an R record.
RegsClases == {Reg_CX, Reg_MX, Reg_TX, Reg_DXa, Reg_Y_e, Reg_R}

\* A text with every kind of record, line endings and an end-of-file mark.
TextoCobertura ==
  <<"~", "V", "|", "a", "\r", "\n", "~", "K", "|", "1", "\r", "~", "C",
    "|", "X", "|", "u", "|", "r", "|", "1", "\n", "~", "D", "|", "X", "|",
    "a", "~", "Y", "|", "X", "|", "b", "~", "M", "|", "X", "|", "2", "~",
    "T", "|", "X", "|", "t", "~", "R", "|", "a", "~", "F", "|", "b", "~",
    "Q", "|", "c", "~", EOFChar, "C", "|", "Y", "|", "u", "|", "r", "|",
    "1", "~">>

\* ~C|02.1|u|r|1~C|1.10|u|r|1~C|1.2|u|r|1~C|##|u|r|1~
TextoOrdenEjemplo ==
  <<"~", "C", "|", "0", "2", ".", "1", "|", "u", "|", "r", "|", "1", "~",
    "C", "|", "1", ".", "1", "0", "|", "u", "|", "r", "|", "1", "~", "C",
    "|", "1", ".", "2", "|", "u", "|", "r", "|", "1", "~", "C", "|", "#",
    "#", "|", "u", "|", "r", "|", "1", "~">>

\* ~V|ACME|FIEBDC-3/2020~C|01.01|m2|Exc|15,00|01012024|~M|01.01|120~
TextoExtremoAExtremo ==
  <<"~", "V", "|", "A", "C", "M", "E", "|", "F", "I", "E", "B", "D", "C",
    "-", "3", "/", "2", "0", "2", "0", "~", "C", "|", "0", "1", ".", "0",
    "1", "|", "m", "2", "|", "E", "x", "c", "|", "1", "5", ",", "0", "0",
    "|", "0", "1", "0", "1", "2", "0", "2", "4", "|", "~", "M", "|", "0",
    "1", ".", "0", "1", "|", "1", "2", "0", "~">>

\* The text of a file holding the raw records given: "~" before each.
RECURSIVE Texto(_)
Texto(regs) ==
  IF regs = <<>> THEN <<>> ELSE <<"~">> \o Head(regs) \o Texto(Tail(regs))

\* The texts of at most MaxRecords records drawn from a set of raw records,
\* and the text with every kind of record.
TextosDe(regs) ==
  {Texto(q) : q \in UNION {[1..n -> regs] : n \in 0..MaxRecords}}
  \cup {TextoCobertura}

\* The characters of the generated arguments of _parse_numero.
NumeroAlfabeto == {"0", "1", "5", ",", ".", " ", "-", "a"}

\* 1.234,56
Num_1_234_56 ==
  <<"1", ".", "2", "3", "4", ",", "5", "6">>

\* 12,5
Num_12_5 ==
  <<"1", "2", ",", "5">>

\* 1,0.5
Num_ingles ==
  <<"1", ",", "0", ".", "5">>

\* Every string of at most MaxNumLen characters of the alphabet, and the
\* longer examples.
NumeroTextos ==
  UNION {[1..n -> NumeroAlfabeto] : n \in 0..MaxNumLen}
  \cup {Num_1_234_56, Num_12_5, Num_ingles}

\* No parse runs; _parse_numero is about to be called on one of the texts.
InitNumero ==
  /\ contenido = <<>>
  /\ pc = "sin_uso"
  /\ registros_raw = <<>>
  /\ i = 1
  /\ presupuesto = PresupuestoBC3
  /\ resultados = <<>>
  /\ iter_orden = <<>>
  /\ otra = OtraInactiva
  /\ numero_s \in NumeroTextos
  /\ numero_ret = NumeroSinLlamar

NextNumero == ParseNumero

InitOtros == InitCon(TextosDe(RegsOtros))
InitOrden == InitCon(TextosDe(RegsOrden) \cup {TextoOrdenEjemplo})
InitEmpates == InitCon(TextosDe(RegsEmpates))
InitPartidas == InitCon(TextosDe(RegsPartidas))
InitImporte == InitCon(TextosDe(RegsImporte) \cup {TextoExtremoAExtremo})
InitDY == InitCon(TextosDe(RegsDY))
InitC == InitCon(TextosDe(RegsC))
InitV == InitCon(TextosDe(RegsV))
InitCortos == InitCon(TextosDe(RegsCortos))
InitCodigos == InitCon(TextosDe(RegsCodigos))
InitEOF == InitCon(TextosDe(RegsEOF))
InitConcepto == InitCon(TextosDe(RegsConcepto))
InitRender == InitCon(TextosDe(RegsRender))
InitMedicion == InitCon(TextosDe(RegsMedicion))
InitTextos == InitCon(TextosDe(RegsTextos))
InitPasada == InitCon(TextosDe(RegsPasada))
InitClases == InitCon(TextosDe(RegsClases))

\* Two parses are about to run, each on its own text.
InitDos ==
  /\ contenido \in TextosDe(RegsDosA)
  /\ pc = "inicio"
  /\ registros_raw = <<>>
  /\ i = 1
  /\ presupuesto = PresupuestoInicial
  /\ resultados = <<>>
  /\ iter_orden = <<>>
  /\ otra \in {OtraCon(t) : t \in TextosDe(RegsDosB)}
  /\ numero_s = <<>>
  /\ numero_ret = NumeroSinLlamar

SpecOtros == InitOtros /\ [][Next]_vars
SpecOrden == InitOrden /\ [][Next]_vars
SpecEmpates == InitEmpates /\ [][Next]_vars
SpecPartidas == InitPartidas /\ [][Next]_vars
SpecImporte == InitImporte /\ [][Next]_vars
SpecDY == InitDY /\ [][Next]_vars
SpecC == InitC /\ [][Next]_vars
SpecV == InitV /\ [][Next]_vars
SpecCortos == InitCortos /\ [][Next]_vars
SpecNumero == InitNumero /\ [][NextNumero]_vars
SpecCodigos == InitCodigos /\ [][Next]_vars
SpecEOF == InitEOF /\ [][Next]_vars
SpecConcepto == InitConcepto /\ [][Next]_vars
SpecRender == InitRender /\ [][Next]_vars
SpecMedicion == InitMedicion /\ [][Next]_vars
SpecTextos == InitTextos /\ [][Next]_vars
SpecDos == InitDos /\ [][NextDos]_vars
SpecPasada == InitPasada /\ [][Next]_vars
SpecClases == InitClases /\ [][Next]_vars

(***************************************************************************)
(* Properties.                                                             *)
(***************************************************************************)
\* The positions of the records the loop has processed so far.
Hechos == {k \in 1..(i - 1) : k <= Len(registros_raw) /\ RegRaw(k) # <<>>}

\* The codes of a list of line items, in order.
Codigos(r) == [j \in 1..Len(r) |-> r[j].codigo]

Max(S) == CHOOSE x \in S : \A y \in S : y <= x

\* C1: a record whose uppercased tag is none of V, K, C, D, Y, M, T leaves
\* conceptos, mediciones and descomposiciones unchanged and has its
\* fields[1:] appended to otros_registros under its tag.
C1_TagDesconocidoAlPassthrough ==
  [][(EnRegistro /\ Tipo(i) \notin TiposDecodificados) =>
       /\ presupuesto'.conceptos = presupuesto.conceptos
       /\ presupuesto'.mediciones = presupuesto.mediciones
       /\ presupuesto'.descomposiciones = presupuesto.descomposiciones
       /\ Tipo(i) \in DOMAIN presupuesto'.otros_registros
       /\ presupuesto'.otros_registros[Tipo(i)] =
            Append(IF Tipo(i) \in DOMAIN presupuesto.otros_registros
                   THEN presupuesto.otros_registros[Tipo(i)] ELSE <<>>,
                   SliceFrom(Campos(i), 1))]_vars

\* C2: parsing followed by get_partidas_con_detalles never raises, whatever
\* the codes of the Budget are.
C2_NuncaLanza == pc # "TypeError"

\* The sort key the ordering is described with: '#' removed, split on '.',
\* at most 8 components, an all-digit component as its integer and an empty
\* component as 0.  Defined for codes all of whose components are such.
ClaveNumerica(c) ==
  LET todas == Split(RemoveChar(c, "#"), ".")
      partes == SubSeq(todas, 1, Min(8, Len(todas)))
  IN  [k \in 1..Len(partes) |->
         IF partes[k] = <<>> THEN 0 ELSE ToInt(partes[k])]

EsNumerico(c) ==
  \A k \in 1..Len(c) : c[k] \in Digits \cup {".", "#"}

\* a <= b for two tuples of integers, component by component.
RECURSIVE TuplaMenorIgual(_, _)
TuplaMenorIgual(a, b) ==
  IF a = <<>> THEN TRUE
  ELSE IF b = <<>> THEN FALSE
  ELSE IF Head(a) # Head(b) THEN Head(a) < Head(b)
  ELSE TuplaMenorIgual(Tail(a), Tail(b))

\* C3: the line items come back in ascending order of the hierarchical key
\* of their code, a code made only of '#' first; for the codes 02.1, 1.10,
\* 1.2 and ## the order is ##, 1.2, 1.10, 02.1.
C3_OrdenJerarquico ==
  /\ (\A c \in TodosCodigos(presupuesto) : EsNumerico(c)) => pc # "TypeError"
  /\ \A n \in 1..Len(resultados) :
       \A j \in 1..(Len(resultados[n]) - 1) :
         LET a == resultados[n][j].codigo
             b == resultados[n][j + 1].codigo
         IN  (EsNumerico(a) /\ EsNumerico(b)) =>
               TuplaMenorIgual(ClaveNumerica(a), ClaveNumerica(b))
  /\ (contenido = TextoOrdenEjemplo /\ resultados # <<>>) =>
       Codigos(resultados[1]) =
         <<<<"#", "#">>, <<"1", ".", "2">>, <<"1", ".", "1", "0">>,
           <<"0", "2", ".", "1">>>>

\* C4: the codes of the returned list are exactly the keys of conceptos and
\* of mediciones, each once; a code found only in descomposiciones or
\* textos has no line item.
C4_CodigosDePartidas ==
  \A n \in 1..Len(resultados) :
    LET r == resultados[n]
        claves == (DOMAIN presupuesto.conceptos)
                  \cup (DOMAIN presupuesto.mediciones)
    IN  /\ {r[j].codigo : j \in 1..Len(r)} = claves
        /\ \A j, k \in 1..Len(r) : j # k => r[j].codigo # r[k].codigo
        /\ \A c \in ((DOMAIN presupuesto.descomposiciones)
                     \cup (DOMAIN presupuesto.textos)) \ claves :
             \A j \in 1..Len(r) : r[j].codigo # c

\* C4 witness: a list was returned that has a line item for a code with a
\* measurement and no concept and one for a code with a concept and no
\* measurement, while a code found only in descomposiciones or textos has
\* none.
C4_Testigo ==
  /\ resultados # <<>>
  /\ \E c \in (DOMAIN presupuesto.mediciones) \ (DOMAIN presupuesto.conceptos) :
       \E j \in 1..Len(resultados[1]) : resultados[1][j].codigo = c
  /\ \E c \in (DOMAIN presupuesto.conceptos) \ (DOMAIN presupuesto.mediciones) :
       \E j \in 1..Len(resultados[1]) : resultados[1][j].codigo = c
  /\ ((DOMAIN presupuesto.descomposiciones) \cup (DOMAIN presupuesto.textos))
       \ ((DOMAIN presupuesto.conceptos) \cup (DOMAIN presupuesto.mediciones))
     # {}

\* An amount text: digits in groups of three separated by ".", then ","
\* and exactly two digits.
EsImporteEspanol(t) ==
  LET n == Len(t)
  IN  /\ n >= 4
      /\ t[n - 2] = ","
      /\ t[n - 1] \in Digits /\ t[n] \in Digits
      /\ t[1] \in Digits
      /\ \A k \in 1..(n - 3) :
           IF (n - 2 - k) % 4 = 0 THEN t[k] = "." ELSE t[k] \in Digits

\* C5: importe is non-empty exactly when the quantity and the unit price
\* both parse; it is then their product with two decimals, "," as decimal
\* separator and "." between thousands ("10" and "2,50" give "25,00",
\* "120" and "15,00" give "1.800,00"); otherwise it is empty.
C5_Importe ==
  \A n \in 1..Len(resultados) :
    \A j \in 1..Len(resultados[n]) :
      LET x == resultados[n][j]
          cant == _parse_numero(x.cantidad)
          precio == _parse_numero(x.precio_unitario)
      IN  /\ (x.importe # <<>>) <=> (cant.ok /\ precio.ok)
          /\ (cant.ok /\ precio.ok) =>
               /\ EsImporteEspanol(x.importe)
               /\ _parse_numero(x.importe) = Times(cant, precio)
          /\ (x.cantidad = <<"1", "0">>
              /\ x.precio_unitario = <<"2", ",", "5", "0">>) =>
               x.importe = <<"2", "5", ",", "0", "0">>
          /\ (x.cantidad = <<"1", "2", "0">>
              /\ x.precio_unitario = <<"1", "5", ",", "0", "0">>) =>
               x.importe = <<"1", ".", "8", "0", "0", ",", "0", "0">>

\* C5 witness: the end-to-end example was parsed and flattened; its one
\* line item has quantity 120 and amount 1.800,00.
C5_Testigo ==
  /\ contenido = TextoExtremoAExtremo
  /\ resultados # <<>>
  /\ Len(resultados[1]) = 1
  /\ resultados[1][1].cantidad = <<"1", "2", "0">>
  /\ resultados[1][1].importe = <<"1", ".", "8", "0", "0", ",", "0", "0">>

\* A D or Y record that is not dropped: at least 3 fields and a parent code.
ValidoDY(k) ==
  /\ k \in Hechos
  /\ Tipo(k) \in {<<"D">>, <<"Y">>}
  /\ Len(Campos(k)) >= 3
  /\ Strip(Campos(k)[2]) # <<>>

Padre(k) == Strip(Campos(k)[2])

\* The child lines record k contributes.
LineasDeRegistro(k) ==
  IF Tipo(k) = <<"D">> THEN LineasD(SliceFrom(Campos(k), 2), <<>>)
  ELSE LineasY(SliceFrom(Campos(k), 2), <<>>)

\* The lines of the records k..n for parent c, in file order.
RECURSIVE LineasEntre(_, _, _)
LineasEntre(c, k, n) ==
  IF k > n THEN <<>>
  ELSE (IF ValidoDY(k) /\ Padre(k) = c THEN LineasDeRegistro(k) ELSE <<>>)
       \o LineasEntre(c, k + 1, n)

\* The lines of the last D record for c among records 1..n and of the Y
\* records after it; of all Y records if there is no D record.
DesdeUltimoD(c, n) ==
  LET ds == {k \in 1..n : ValidoDY(k) /\ Tipo(k) = <<"D">> /\ Padre(k) = c}
  IN  LineasEntre(c, IF ds = {} THEN 1 ELSE Max(ds), n)

\* C6: descomposiciones[parent] is the child lines of the last D record for
\* the parent followed by those of every later Y record for it, in file
\* order; the parents are those of the D and Y records processed.
C6_DReemplazaYAnade ==
  /\ DOMAIN presupuesto.descomposiciones = {Padre(k) : k \in {j \in Hechos : ValidoDY(j)}}
  /\ \A c \in DOMAIN presupuesto.descomposiciones :
       presupuesto.descomposiciones[c] = DesdeUltimoD(c, i - 1)

\* C6 witness: for some parent a record with child lines was followed by a
\* D record and that by a Y record, both with child lines; the entry has
\* the lines of the last two and none of the first.
C6_Testigo ==
  \E k1, k2, k3 \in Hechos :
    /\ k1 < k2 /\ k2 < k3
    /\ ValidoDY(k1) /\ ValidoDY(k2) /\ ValidoDY(k3)
    /\ Padre(k1) = Padre(k2) /\ Padre(k2) = Padre(k3)
    /\ Tipo(k2) = <<"D">> /\ Tipo(k3) = <<"Y">>
    /\ LineasDeRegistro(k1) # <<>>
    /\ LineasDeRegistro(k2) # <<>> /\ LineasDeRegistro(k3) # <<>>
    /\ Len(presupuesto.descomposiciones[Padre(k2)]) =
         Len(LineasDeRegistro(k2)) + Len(LineasDeRegistro(k3))

\* The conceptos entry record k gives on an empty Budget (none if dropped).
ConceptoSolo(k) == _parse_registro_c(Campos(k), PresupuestoBC3).conceptos

\* The C records processed that store an entry for code c.
RegistrosC(c) ==
  {k \in Hechos : Tipo(k) = <<"C">> /\ c \in DOMAIN ConceptoSolo(k)}

\* C7: conceptos[code] holds the five values decoded from the last C record
\* of the code, with the empty string for each field that record lacks;
\* nothing of an earlier C record remains.
C7_UltimoCGana ==
  /\ DOMAIN presupuesto.conceptos =
       UNION {DOMAIN ConceptoSolo(k) : k \in {j \in Hechos : Tipo(j) = <<"C">>}}
  /\ \A c \in DOMAIN presupuesto.conceptos :
       LET k == Max(RegistrosC(c))
       IN  /\ Len(presupuesto.conceptos[c]) = 5
           /\ presupuesto.conceptos[c] = ConceptoSolo(k)[c]
           /\ \A j \in 1..5 :
                Len(Campos(k)) < j + 2 => presupuesto.conceptos[c][j] = <<>>

\* C7 witness: two C records for one code, the later with fewer fields; the
\* entry's price is empty although the earlier record had one.
C7_Testigo ==
  \E k1, k2 \in Hechos : \E c \in DOMAIN presupuesto.conceptos :
    /\ k1 < k2 /\ k2 = Max(RegistrosC(c)) /\ k1 \in RegistrosC(c)
    /\ Len(Campos(k2)) < Len(Campos(k1))
    /\ ConceptoSolo(k1)[c][3] # <<>>
    /\ presupuesto.conceptos[c][3] = <<>>

\* The V records processed.
RegistrosV == {k \in Hechos : Tipo(k) = <<"V">>}

\* C8: once a V record was processed, version maps the ten keys to fields
\* 1..10 of the last V record, the empty string for a missing field.
C8_VersionDelUltimoV ==
  RegistrosV # {} =>
    LET campos == Campos(Max(RegistrosV))
    IN  /\ DOMAIN presupuesto.version = {VersionKeys[j] : j \in 1..10}
        /\ \A j \in 1..10 :
             presupuesto.version[VersionKeys[j]] =
               IF j + 1 <= Len(campos) THEN campos[j + 1] ELSE <<>>

\* C8 witness: the last V record has more than ten fields after the tag
\* and follows a shorter V record with another first field; version holds
\* the fields of the last one.
C8_Testigo ==
  \E k1, k2 \in RegistrosV :
    /\ k1 < k2 /\ k2 = Max(RegistrosV)
    /\ Len(Campos(k2)) > 11
    /\ Len(Campos(k1)) = 3
    /\ presupuesto.version["propiedad"] = Campos(k2)[2]
    /\ presupuesto.version["propiedad"] # Campos(k1)[2]
    /\ presupuesto.version["url_base"] = Campos(k2)[11]

\* Record k has fewer fields than its kind's minimum.
Corto(k) ==
  \/ Tipo(k) = <<"K">> /\ Len(Campos(k)) < 2
  \/ Tipo(k) = <<"C">> /\ Len(Campos(k)) < 4
  \/ Tipo(k) \in {<<"D">>, <<"Y">>, <<"M">>, <<"T">>} /\ Len(Campos(k)) < 3

\* C9: a record with fewer fields than its kind's minimum changes no
\* component of the Budget, raises nothing, and the loop goes on to the
\* next record.
C9_CortosDescartados ==
  [][(EnRegistro /\ Corto(i)) =>
       /\ presupuesto' = presupuesto
       /\ pc' = "bucle"
       /\ i' = i + 1
       /\ registros_raw' = registros_raw]_vars

\* C9 witness: an under-length record was processed and a later C record
\* was decoded after it.
C9_Testigo ==
  \E k1, k2 \in Hechos :
    /\ k1 < k2
    /\ Corto(k1)
    /\ Tipo(k2) = <<"C">> /\ ~Corto(k2)
    /\ DOMAIN ConceptoSolo(k2) \subseteq DOMAIN presupuesto.conceptos
    /\ DOMAIN presupuesto.conceptos # {}

Componentes ==
  {"version", "coeficientes", "conceptos", "descomposiciones", "mediciones",
   "textos", "metadata", "otros_registros"}

\* The step is a call of get_partidas_con_detalles: it returns a list or
\* raises.
EsLlamada == pc = "parsed" /\ (resultados' # resultados \/ pc' = "TypeError")

\* C11: get_partidas_con_detalles leaves the Budget unchanged: each of the
\* eight components has the same keys and the same values after the call
\* as before it, whether the call returns or raises.
C11_PresupuestoIntacto ==
  [][EsLlamada =>
       /\ DOMAIN presupuesto' = Componentes
       /\ \A c \in Componentes :
            /\ DOMAIN presupuesto'[c] = DOMAIN presupuesto[c]
            /\ \A k \in DOMAIN presupuesto[c] :
                 presupuesto'[c][k] = presupuesto[c][k]]_vars

\* C11 witness: two calls have returned a non-empty list on a Budget with
\* entries in every one of its eight components, a measurement among them.
C11_Testigo ==
  /\ Len(resultados) = 2
  /\ resultados[2] # <<>>
  /\ \A c \in Componentes : DOMAIN presupuesto[c] # {}

\* The text with its spaces and its "." removed.
SinEspaciosNiPuntos(s) == SelectSeq(s, LAMBDA c : c \notin {" ", "."})

\* The text without a leading sign.
SinSigno(t) == IF t # <<>> /\ t[1] \in {"+", "-"} THEN Tail(t) ELSE t

\* The text reads as a number with "," as the decimal point: an optional
\* sign, then digits with at most one "," among them and at least one digit.
Legible(t) ==
  LET u == SinSigno(t)
  IN  /\ \A k \in 1..Len(u) : u[k] \in Digits \cup {","}
      /\ Cardinality({k \in 1..Len(u) : u[k] = ","}) <= 1
      /\ \E k \in 1..Len(u) : u[k] \in Digits

\* The number of digits after the ",".
Decimales(t) ==
  IF \E k \in 1..Len(t) : t[k] = ","
  THEN Len(t) - (CHOOSE k \in 1..Len(t) : t[k] = ",")
  ELSE 0

\* The digits of the text read as one natural number.
Cifras(t) == ToInt(SelectSeq(t, LAMBDA c : c \in Digits))

\* The value v is mant / 10^dec, negative iff neg (a zero has any sign).
ValeDecimal(v, neg, mant, dec) ==
  /\ v.ok
  /\ v.m * Pow10(dec) = mant * Pow10(v.d)
  /\ (mant # 0 => v.neg = neg)

NombraCodigo(k) ==
  /\ Tipo(k) \in {<<"C">>, <<"D">>, <<"Y">>, <<"M">>, <<"T">>}
  /\ ~Corto(k)
  /\ Campos(k)[2] # <<>>

\* The mapping of the Budget that records of the kind of record k go to.
Almacen(k) ==
  CASE Tipo(k) = <<"C">> -> presupuesto.conceptos
    [] Tipo(k) \in {<<"D">>, <<"Y">>} -> presupuesto.descomposiciones
    [] Tipo(k) = <<"M">> -> presupuesto.mediciones
    [] Tipo(k) = <<"T">> -> presupuesto.textos

\* The trimmed text of a field before its first "\\" (the whole field when
\* it has none).
AntesDeBarra(campo) ==
  LET barras == {n \in 1..Len(campo) : campo[n] = "\\"}
  IN  IF barras = {} THEN campo
      ELSE Strip(SubSeq(campo, 1,
                        (CHOOSE n \in barras : \A m \in barras : n <= m) - 1))

\* The key of record k: for a C record the first sub-field of field 1, or
\* the whole field when that sub-field is empty; for the other kinds the
\* whole trimmed field 1.
ClaveDe(k) ==
  IF Tipo(k) = <<"C">> /\ AntesDeBarra(Campos(k)[2]) # <<>>
  THEN AntesDeBarra(Campos(k)[2])
  ELSE Campos(k)[2]

\* The line items of list r whose codigo is c.
ConCodigo(r, c) == {j \in 1..Len(r) : r[j].codigo = c}

\* C13 as stated: every C, D, Y, M or T record is stored under the whole
\* trimmed text of its field 1, and a returned list has exactly one line
\* item with that text as codigo for every C and M record.
C13_ClaveEsElCampoEntero ==
  /\ \A k \in Hechos :
       NombraCodigo(k) => Campos(k)[2] \in DOMAIN Almacen(k)
  /\ \A n \in 1..Len(resultados) : \A k \in Hechos :
       (NombraCodigo(k) /\ Tipo(k) \in {<<"C">>, <<"M">>}) =>
         Cardinality(ConCodigo(resultados[n], Campos(k)[2])) = 1

\* C13 amended: a D, Y, M or T record is stored under the whole trimmed
\* text of its field 1, and a C record whose field 1 has a non-empty first
\* sub-field under that trimmed first sub-field, "#" and "##" retained;
\* every key of the four mappings is the first sub-field or the whole field
\* 1 of such a record; and a returned list has for each key of conceptos or
\* mediciones exactly one line item, whose codigo is the key and which
\* carries what conceptos, mediciones, textos and descomposiciones hold
\* under that same key.
C13_ClavesLiterales ==
  /\ \A k \in Hechos :
       (NombraCodigo(k)
        /\ (Tipo(k) = <<"C">> => AntesDeBarra(Campos(k)[2]) # <<>>)) =>
         /\ ClaveDe(k) \in DOMAIN Almacen(k)
         /\ Tipo(k) # <<"C">> => ClaveDe(k) = Campos(k)[2]
         /\ Tipo(k) = <<"C">> => ClaveDe(k) = AntesDeBarra(Campos(k)[2])
  /\ \A c \in (DOMAIN presupuesto.conceptos)
               \cup (DOMAIN presupuesto.mediciones)
               \cup (DOMAIN presupuesto.textos)
               \cup (DOMAIN presupuesto.descomposiciones) :
       \E k \in Hechos :
         NombraCodigo(k) /\ ClaveDe(k) = c /\ c \in DOMAIN Almacen(k)
  /\ \A n \in 1..Len(resultados) :
       \A c \in (DOMAIN presupuesto.conceptos)
                \cup (DOMAIN presupuesto.mediciones) :
         /\ Cardinality(ConCodigo(resultados[n], c)) = 1
         /\ \A j \in ConCodigo(resultados[n], c) :
              LET x == resultados[n][j]
              IN  /\ c \in DOMAIN presupuesto.conceptos =>
                       x.descripcion = presupuesto.conceptos[c][2]
                  /\ c \in DOMAIN presupuesto.textos =>
                       x.texto_largo = presupuesto.textos[c]
                  /\ c \in DOMAIN presupuesto.descomposiciones =>
                       x.descomposicion =
                         Join(presupuesto.descomposiciones[c],
                              <<" ", "|", " ">>)
                  /\ (c \in DOMAIN presupuesto.mediciones
                      /\ Len(presupuesto.mediciones[c]) = 1) =>
                       x.cantidad = presupuesto.mediciones[c][1]

\* C13 witness: a C, an M and a T record whose field 1 is "A#" (the T with
\* blanks around it) gave one line item with codigo "A#" that has the
\* summary, the quantity and the text.
C13_Testigo ==
  /\ \E k1, k2, k3 \in Hechos :
       /\ Tipo(k1) = <<"C">> /\ Tipo(k2) = <<"M">> /\ Tipo(k3) = <<"T">>
       /\ \A k \in {k1, k2, k3} : NombraCodigo(k) /\ ClaveDe(k) = <<"A", "#">>
  /\ Len(resultados) >= 1
  /\ Len(resultados[1]) = 1
  /\ resultados[1][1].codigo = <<"A", "#">>
  /\ resultados[1][1].descripcion = <<"r">>
  /\ resultados[1][1].cantidad = <<"2">>
  /\ resultados[1][1].texto_largo = <<"t">>

\* The Budget a parse on its own has after the first n of the raw records
\* regs.
RECURSIVE PresupuestoTras(_, _)
PresupuestoTras(regs, n) ==
  IF n = 0 THEN PresupuestoInicial
  ELSE Despacho(regs[n], PresupuestoTras(regs, n - 1))

\* The Budget a text gives when it is parsed alone.
PresupuestoSolo(texto) ==
  LET regs == RegistrosRaw(texto) IN PresupuestoTras(regs, Len(regs))

\* C14: with the record steps of two parses interleaved in any order, each
\* parse's Budget is at every point the one its own text gives alone up to
\* the record the parse has reached, and at the end the Budget of the
\* whole text: no record of one parse shows in the other's Budget.
C14_ParsesIndependientes ==
  /\ pc = "inicio" => presupuesto = PresupuestoInicial
  /\ pc = "bucle" =>
       presupuesto = PresupuestoTras(RegistrosRaw(contenido), i - 1)
  /\ pc \in {"parsed", "TypeError"} =>
       presupuesto = PresupuestoSolo(contenido)
  /\ otra.pc = "inicio" => otra.presupuesto = PresupuestoInicial
  /\ otra.pc = "bucle" =>
       otra.presupuesto =
         PresupuestoTras(RegistrosRaw(otra.contenido), otra.i - 1)
  /\ otra.pc = "parsed" =>
       otra.presupuesto = PresupuestoSolo(otra.contenido)

\* C14 witness: both parses are inside their loops with records still to
\* come, and each has stored its own measurement of code X: 2 in the first
\* Budget, 10 in the second.
C14_Testigo ==
  /\ pc = "bucle" /\ i <= Len(registros_raw)
  /\ otra.pc = "bucle" /\ otra.i <= Len(otra.registros_raw)
  /\ <<"X">> \in DOMAIN presupuesto.mediciones
  /\ <<"X">> \in DOMAIN otra.presupuesto.mediciones
  /\ presupuesto.mediciones[<<"X">>] = <<(<<"2">>)>>
  /\ otra.presupuesto.mediciones[<<"X">>] = <<(<<"1", "0">>)>>

\* The text before the first end-of-file mark (the whole text when it has
\* none).
Truncar(texto) ==
  LET marcas == {n \in 1..Len(texto) : texto[n] = EOFChar}
  IN  IF marcas = {} THEN texto
      ELSE SubSeq(texto, 1,
                  (CHOOSE n \in marcas : \A m \in marcas : n <= m) - 1)

\* The chunks between "~" that are not empty or blank.
TrozosNoVacios(texto) ==
  SelectSeq(Split(texto, "~"), LAMBDA r : Strip(r) # <<>>)

\* C15: when the text has an end-of-file mark, the Budget of the finished
\* parse is the Budget of the text cut at the first mark, and it is the
\* Budget given by the non-empty chunks before the mark alone: what follows
\* the mark and the empty chunks contribute nothing, and the loop runs to
\* the end of the records.
C15_SoloAntesDeEOF ==
  pc \in {"parsed", "TypeError"} =>
    LET trozos == TrozosNoVacios(Truncar(contenido))
    IN  /\ presupuesto = PresupuestoSolo(Truncar(contenido))
        /\ presupuesto = PresupuestoTras(trozos, Len(trozos))
        /\ i = Len(registros_raw) + 1

\* C15 witness: the parse finished on a text with an empty chunk and a T
\* record before the end-of-file mark and the fields of other records after
\* it; the Budget has the text and no measurement or decomposition.
C15_Testigo ==
  /\ pc = "parsed"
  /\ \E n \in 1..Len(contenido) :
       /\ contenido[n] = EOFChar
       /\ \E m \in (n + 1)..Len(contenido) : contenido[m] = "|"
       /\ \E m \in 1..(n - 2) : contenido[m] = "~" /\ contenido[m + 1] = "~"
  /\ DOMAIN presupuesto.textos # {}
  /\ DOMAIN presupuesto.mediciones = {}
  /\ DOMAIN presupuesto.descomposiciones = {}

\* The step decodes a C record with at least 4 fields and a non-empty code.
DecodificaC == EnRegistro /\ Tipo(i) = <<"C">> /\ NombraCodigo(i)

\* C16: after a C record with at least 4 fields and a non-empty code, the
\* entry of its code has exactly five elements, the j-th being the trimmed
\* text before the first "\\" of field j + 1, or the empty string when the
\* record has no such field; an empty first sub-field gives the empty
\* string, also for the price and the date.
C16_CincoPrimerosSubcampos ==
  [][DecodificaC =>
       /\ ClaveDe(i) \in DOMAIN presupuesto'.conceptos
       /\ presupuesto'.conceptos[ClaveDe(i)] =
            [j \in 1..5 |->
               IF Len(Campos(i)) >= j + 2 THEN AntesDeBarra(Campos(i)[j + 2])
               ELSE <<>>]]_vars

\* The text reads as the number 1 ("1", "1,0", "1,00", ...).
EsUno(s) ==
  LET t == SinEspaciosNiPuntos(s)
  IN  Legible(t) /\ t[1] # "-" /\ Cifras(t) = Pow10(Decimales(t))

\* The non-empty trimmed sub-fields of a field, in order.
SubcamposNoVacios(campo) ==
  LET partes == Split(campo, "\\")
  IN  SelectSeq([n \in 1..Len(partes) |-> Strip(partes[n])],
                LAMBDA x : x # <<>>)

\* The line a child field with the non-empty sub-fields sub is rendered as.
LineaEsperada(sub) ==
  LET hijo == sub[1]
      factor == IF Len(sub) >= 2 THEN sub[2] ELSE <<"1">>
      rendimiento == IF Len(sub) >= 3 THEN sub[3] ELSE <<"1">>
  IN  IF ~EsUno(rendimiento)
      THEN hijo \o <<" ", "x", " ">> \o factor \o <<" ", "(", "r", ":", " ">>
           \o rendimiento \o <<")">>
      ELSE IF ~EsUno(factor) THEN hijo \o <<" ", "x", " ">> \o factor
      ELSE hijo

\* The lines of the child fields of a field list, in order: one for each
\* field from the third on that has a non-empty sub-field.
LineasEsperadas(campos) ==
  LET hijos == SelectSeq(SubSeq(campos, 3, Len(campos)),
                         LAMBDA c : SubcamposNoVacios(c) # <<>>)
  IN  [n \in 1..Len(hijos) |-> LineaEsperada(SubcamposNoVacios(hijos[n]))]

\* C17: a D or Y record renders each child field with the non-empty
\* sub-fields [child, factor, yield] as "<child> x <factor> (r: <yield>)"
\* when the yield is not 1, else "<child> x <factor>" when the factor is
\* not 1, else the bare child; a factor or yield written "1" or "1,0"
\* counts as 1; a field with no non-empty sub-field gives no line; and D
\* and Y render a field in the same way (D stores the lines, Y appends them
\* to the stored ones).
C17_RenderDY ==
  [][(EnRegistro /\ Tipo(i) \in {<<"D">>, <<"Y">>} /\ NombraCodigo(i)) =>
       LET padre == Campos(i)[2]
           antes == IF Tipo(i) = <<"Y">>
                       /\ padre \in DOMAIN presupuesto.descomposiciones
                    THEN presupuesto.descomposiciones[padre] ELSE <<>>
       IN  /\ padre \in DOMAIN presupuesto'.descomposiciones
           /\ presupuesto'.descomposiciones[padre]
                = antes \o LineasEsperadas(Campos(i))]_vars

\* C17 witness: a D record and then a Y record with the same three child
\* fields were decoded; each gave the lines "a" (factor "1,0", yield "1"),
\* "b x 2" (yield "1,0") and "c x 1 (r: 3)".
C17_Testigo ==
  /\ <<"X">> \in DOMAIN presupuesto.descomposiciones
  /\ LET lineas == presupuesto.descomposiciones[<<"X">>]
     IN  /\ Len(lineas) = 6
         /\ \A n \in 1..3 : lineas[n] = lineas[n + 3]
         /\ lineas[1] = <<"a">>
         /\ lineas[2] = <<"b", " ", "x", " ", "2">>
         /\ lineas[3] = <<"c", " ", "x", " ", "1", " ", "(", "r", ":", " ",
                          "3", ")">>
  /\ \E k1, k2 \in Hechos :
       k1 < k2 /\ Tipo(k1) = <<"D">> /\ Tipo(k2) = <<"Y">>

\* The entry an M record with the field list campos leaves for its code.
MedicionEsperada(campos) ==
  LET sub == SubcamposNoVacios(campos[3])
  IN  IF sub # <<>> THEN sub
      ELSE IF campos[3] # <<>> THEN <<campos[3]>>
      ELSE <<>>

\* C18: after an M record with at least 3 fields and a non-empty code, the
\* entry of the code is the list of the non-empty trimmed sub-fields of
\* field 2 or, when there is none, the one-element list of the trimmed
\* field text, or the empty list when the field is blank, whatever the
\* entry was before; and a list returned has a line item with an empty
\* quantity for a code whose entry is the empty list.
C18_MedicionReemplaza ==
  [][/\ (EnRegistro /\ Tipo(i) = <<"M">> /\ NombraCodigo(i)) =>
          /\ Campos(i)[2] \in DOMAIN presupuesto'.mediciones
          /\ presupuesto'.mediciones[Campos(i)[2]]
               = MedicionEsperada(Campos(i))
     /\ (EsLlamada /\ resultados' # resultados) =>
          \A c \in DOMAIN presupuesto.mediciones :
            presupuesto.mediciones[c] = <<>> =>
              \E j \in 1..Len(resultados'[Len(resultados')]) :
                /\ resultados'[Len(resultados')][j].codigo = c
                /\ resultados'[Len(resultados')][j].cantidad = <<>>]_vars

\* C18 witness: an M record with two sub-fields for a code was followed by
\* an M record with a blank field for the same code; the entry is the empty
\* list and the list returned has the code with an empty quantity.
C18_Testigo ==
  /\ \E k1, k2 \in Hechos :
       /\ k1 < k2
       /\ \A k \in {k1, k2} : Tipo(k) = <<"M">> /\ NombraCodigo(k)
       /\ Campos(k1)[2] = Campos(k2)[2]
       /\ Len(MedicionEsperada(Campos(k1))) = 2
       /\ Campos(k2)[3] = <<>>
       /\ \A k \in Hechos : k > k2 => Tipo(k) # <<"M">>
       /\ presupuesto.mediciones[Campos(k2)[2]] = <<>>
       /\ Len(resultados) >= 1
       /\ \E j \in 1..Len(resultados[1]) :
            /\ resultados[1][j].codigo = Campos(k2)[2]
            /\ resultados[1][j].cantidad = <<>>

\* The pieces of a text between the occurrences of " x ".
PartirPorX(s) ==
  LET seps == SelectSeq([n \in 1..Len(s) |-> n],
                        LAMBDA n : n + 2 <= Len(s) /\ s[n] = " "
                                   /\ s[n + 1] = "x" /\ s[n + 2] = " ")
  IN  [j \in 1..(Len(seps) + 1) |->
         SubSeq(s, (IF j = 1 THEN 1 ELSE seps[j - 1] + 3),
                   (IF j > Len(seps) THEN Len(s) ELSE seps[j] - 1))]

\* The piece is a number written with a decimal point, digits on both
\* sides, whose value is that of the element read with a decimal comma.
EsElNumeroDe(pieza, elemento) ==
  LET t == SinEspaciosNiPuntos(elemento)
      u == SinSigno(pieza)
      puntos == {n \in 1..Len(u) : u[n] = "."}
  IN  /\ Cardinality(puntos) = 1
      /\ \A n \in 1..Len(u) : u[n] \in Digits \cup {"."}
      /\ \A n \in puntos : 1 < n /\ n < Len(u)
      /\ \A n \in puntos :
           Cifras(u) * Pow10(Decimales(t)) = Cifras(t) * Pow10(Len(u) - n)
      /\ (Cifras(t) # 0 => ((pieza[1] = "-") <=> (t[1] = "-")))

RegistrosT(c) ==
  {k \in Hechos : Tipo(k) = <<"T">> /\ NombraCodigo(k) /\ Campos(k)[2] = c}

\* C20: the text of a code is the trimmed field 2 of the last T record
\* with at least 3 fields that names the code, even when that field is
\* empty; the text of an earlier T record of the code does not stay. A
\* code no such record names has no text.
C20_UltimoTGana ==
  /\ \A c \in DOMAIN presupuesto.textos :
       /\ RegistrosT(c) # {}
       /\ presupuesto.textos[c] = Campos(Max(RegistrosT(c)))[3]
  /\ \A k \in Hechos :
       (Tipo(k) = <<"T">> /\ NombraCodigo(k)) =>
         Campos(k)[2] \in DOMAIN presupuesto.textos

\* C20 witness: of the T records of one code an earlier one has a text and
\* the last has an empty field 2; the code's text is empty, and so is the
\* long text of its line item in the list returned.
C20_Testigo ==
  \E c \in DOMAIN presupuesto.textos :
    /\ Cardinality(RegistrosT(c)) >= 2
    /\ \E k \in RegistrosT(c) : Campos(k)[3] # <<>>
    /\ Campos(Max(RegistrosT(c)))[3] = <<>>
    /\ presupuesto.textos[c] = <<>>
    /\ Len(resultados) >= 1
    /\ \E j \in 1..Len(resultados[1]) :
         resultados[1][j].codigo = c /\ resultados[1][j].texto_largo = <<>>

\* The mappings of the Budget that records add entries to.
Almacenes ==
  {"conceptos", "descomposiciones", "mediciones", "textos", "otros_registros"}

\* List a is the beginning of list b.
EsPrefijo(a, b) == Len(a) <= Len(b) /\ SubSeq(b, 1, Len(a)) = a

\* C21: no step of the pass removes an entry: every key of conceptos,
\* descomposiciones, mediciones, textos and otros_registros before a step
\* is a key after it.  A value changes only under the key of the record
\* being processed; a list of otros_registros and, at a Y record, the lines
\* of the parent keep what they had and are extended.
C21_NadaSeBorra ==
  [][/\ \A a \in Almacenes :
          /\ DOMAIN presupuesto[a] \subseteq DOMAIN presupuesto'[a]
          /\ \A c \in DOMAIN presupuesto[a] :
               (c \in DOMAIN presupuesto'[a]
                /\ presupuesto'[a][c] # presupuesto[a][c]) =>
                 /\ EnRegistro
                 /\ IF a = "otros_registros" THEN c = Tipo(i)
                    ELSE NombraCodigo(i) /\ c = ClaveDe(i)
     /\ \A t \in DOMAIN presupuesto.otros_registros :
          t \in DOMAIN presupuesto'.otros_registros =>
            EsPrefijo(presupuesto.otros_registros[t],
                      presupuesto'.otros_registros[t])
     /\ (EnRegistro /\ Tipo(i) = <<"Y">>) =>
          \A c \in DOMAIN presupuesto.descomposiciones :
            c \in DOMAIN presupuesto'.descomposiciones =>
              EsPrefijo(presupuesto.descomposiciones[c],
                        presupuesto'.descomposiciones[c])]_vars

\* C21 witness: after an M record with a quantity, an M record with a
\* blank field for the same code and one more record, the code is still a
\* key of mediciones, with the empty list as its entry.
C21_Testigo ==
  \E k1, k2, k3 \in Hechos :
    /\ k1 < k2 /\ k2 < k3
    /\ \A k \in {k1, k2} : Tipo(k) = <<"M">> /\ NombraCodigo(k)
    /\ Campos(k1)[2] = Campos(k2)[2]
    /\ Campos(k1)[3] # <<>> /\ Campos(k2)[3] = <<>>
    /\ Tipo(k3) # <<"M">>
    /\ Campos(k2)[2] \in DOMAIN presupuesto.mediciones
    /\ presupuesto.mediciones[Campos(k2)[2]] = <<>>

\* The kind of a raw record: its tag, with D and Y as one kind; the chunks
\* without content are a kind of their own.
Clase(reg) ==
  LET reg_raw == Strip(reg)
      tipo == Upper(Strip(_split_campos(reg_raw)[1]))
  IN  IF reg_raw = <<>> THEN <<>>
      ELSE IF tipo \in {<<"D">>, <<"Y">>} THEN <<"D", "Y">>
      ELSE tipo

\* The records of regs in the order f: position k holds regs[f[k]].
Reordenado(regs, f) == [k \in 1..Len(regs) |-> regs[f[k]]]

\* The order f keeps the relative order of the records of each kind, for
\* records of the kinds clases[1], clases[2], ...
MismoOrdenPorClase(clases, f) ==
  \A a, b \in DOMAIN clases :
    (a < b /\ clases[f[a]] = clases[f[b]]) => f[a] < f[b]

\* The order that exchanges the records at k and k + 1.
Intercambio(n, k) ==
  [j \in 1..n |-> IF j = k THEN k + 1 ELSE IF j = k + 1 THEN k ELSE j]

\* The sequences to compare the parsed one with: for a text of up to
\* MaxRecords records every order of its records that keeps the relative
\* order within each kind (the chunks without content stay in place), and
\* for a text of any length every exchange of two neighbouring records of
\* different kinds.
Reordenamientos ==
  LET n == Len(registros_raw)
      clases == [k \in 1..n |-> Clase(registros_raw[k])]
      llenos == {k \in 1..n : clases[k] # <<>>}
      Orden(g) == [k \in 1..n |-> IF k \in llenos THEN g[k] ELSE k]
  IN  (IF Cardinality(llenos) <= MaxRecords
       THEN {Reordenado(registros_raw, Orden(g)) :
               g \in {h \in Permutations(llenos) :
                        MismoOrdenPorClase(clases, Orden(h))}}
       ELSE {})
      \cup {Reordenado(registros_raw, Intercambio(n, k)) :
              k \in {j \in 1..(n - 1) : clases[j] # clases[j + 1]}}

\* The Budget p is the one of this parse, and get_partidas_con_detalles on
\* it gives what the calls made here gave.
MismoResultado(p) ==
  /\ p = presupuesto
  /\ pc = "TypeError" => SortRaises(TodosCodigos(p))
  /\ \A r \in 1..Len(resultados) : resultados[r] = Partidas(iter_orden, p)

\* C22: when the pass is over, every sequence of the same records that
\* keeps the relative order within each kind (V; K; C; D and Y together; M;
\* T; each other tag) gives the same final Budget and the same list of line
\* items as the sequence parsed.
C22_OrdenEntreClases ==
  pc \in {"parsed", "TypeError"} =>
    \A p \in {PresupuestoTras(regs, Len(regs)) : regs \in Reordenamientos} :
      MismoResultado(p)

\* C22 witness: the T record and the M record of a code came before its C
\* record, and the line item returned has the description of the C record,
\* the quantity of the M record and the text of the T record.
C22_Testigo ==
  /\ pc = "parsed" /\ Len(resultados) >= 1
  /\ \E kt, km, kc \in Hechos :
       /\ kt < km /\ km < kc
       /\ Tipo(kt) = <<"T">> /\ Tipo(km) = <<"M">> /\ Tipo(kc) = <<"C">>
       /\ \A k \in {kt, km, kc} : NombraCodigo(k)
       /\ ClaveDe(kt) = ClaveDe(kc) /\ ClaveDe(km) = ClaveDe(kc)
       /\ \E j \in 1..Len(resultados[1]) :
            /\ resultados[1][j].codigo = ClaveDe(kc)
            /\ resultados[1][j].descripcion = <<"r">>
            /\ resultados[1][j].cantidad = <<"2">>
            /\ resultados[1][j].texto_largo = <<"t">>

\* C23: in every list returned, the line item of a code whose measurement
\* entry has two or more elements has a quantity with the letter x in it
\* and the empty string as importe, whatever its unit price.
C23_DimensionesSinImporte ==
  \A r \in 1..Len(resultados) :
    \A j \in 1..Len(resultados[r]) :
      LET partida == resultados[r][j]
      IN  (/\ partida.codigo \in DOMAIN presupuesto.mediciones
           /\ Len(presupuesto.mediciones[partida.codigo]) >= 2) =>
            /\ \E k \in 1..Len(partida.cantidad) : partida.cantidad[k] = "x"
            /\ partida.importe = <<>>

\* C23 witness: a code with the measurement entry ["2", "3"] and the unit
\* price 2,50, which is a number, has a line item with the quantity
\* "2.0 x 3.0" and no importe.
C23_Testigo ==
  /\ Len(resultados) >= 1
  /\ \E j \in 1..Len(resultados[1]) :
       LET partida == resultados[1][j]
       IN  /\ partida.codigo \in DOMAIN presupuesto.mediciones
           /\ presupuesto.mediciones[partida.codigo] = <<<<"2">>, <<"3">>>>
           /\ partida.precio_unitario = <<"2", ",", "5", "0">>
           /\ partida.cantidad =
                <<"2", ".", "0", " ", "x", " ", "3", ".", "0">>
           /\ partida.importe = <<>>

====
